---- MODULE Spec2Model ----
(***************************************************************************)
(* A model of content::DownloadItemImpl                                    *)
(* (content/browser/download/download_item_impl.cc): one download item,    *)
(* the callbacks of its DownloadFile that are in flight between the FILE   *)
(* and the UI thread, and what its delegate still owes it.                 *)
(*                                                                         *)
(* Every method of the item is an operator from a record to a record.  The *)
(* record c holds the item's fields (item), what is in flight (env), what  *)
(* the running handler has done so far (log), and the answers the          *)
(* collaborators give during the handler (the four fields of Oracle).  An  *)
(* action applies one public method or one callback to the current record  *)
(* and stores the result.                                                  *)
(*                                                                         *)
(* A DCHECK that fails is recorded in log.dcheck and the handler goes on,  *)
(* as a release build does; a debug build stops at that point.             *)
(*                                                                         *)
(* A handler that returns without changing the item or what is in flight,  *)
(* and without calling anybody, is a stuttering step; log is the log of    *)
(* the last handler that did something.  The DownloadFile's reports reach  *)
(* the item after the callback of its Initialize(), and end with one       *)
(* DestinationError or DestinationCompleted.                               *)
(***************************************************************************)
EXTENDS Integers, Sequences, FiniteSets, TLC

VARIABLES
  item,   \* the fields of the DownloadItemImpl
  env,    \* callbacks and requests in flight, and the process's settings
  log     \* what the last handler that did something did: calls out,
          \* notifications, failed DCHECKs

vars == <<item, env, log>>

----------------------------------------------------------------------------
(* Bounds of the model. *)

\* Byte counts (received, total, bytes_so_far) range over 0..MaxBytes.
MaxBytes == 1
\* Callbacks from the FILE thread that may be queued for the UI thread.
MaxQueue == 2
\* Requests the delegate may hold unanswered (target determinations, starts).
MaxPending == 1
\* Resumption requests the item may issue to the delegate in one behaviour.
MaxResumes == 1
\* The same two bounds in the behaviours that study automatic resumption
\* (SpecAutoResume) and byte counts (SpecProgress).
MaxAutoResumes == 6
\* Target determinations the delegate may hold unanswered in the behaviours
\* that study a delegate answering late (SpecTargets).
MaxTargetsPending == 2
MaxProgress == 4

(* Program constants. *)
kMaxAutoResumeAttempts == 5

\* The build: IsDangerous() is compiled differently under OS_WIN.
OS_WIN == FALSE

----------------------------------------------------------------------------
(* Enumerations. *)

InternalStates ==
  {"IN_PROGRESS", "COMPLETING", "COMPLETE", "CANCELLED", "INTERRUPTED"}
ExternalStates == {"IN_PROGRESS", "COMPLETE", "CANCELLED", "INTERRUPTED"}

\* DownloadInterruptReason, by the cases of GetResumeMode's switch.
TransientReasons == {"FILE_TRANSIENT_ERROR", "NETWORK_TIMEOUT"}
ServerRetryReasons ==
  {"SERVER_PRECONDITION", "SERVER_NO_RANGE", "FILE_TOO_SHORT"}
GenericReasons ==
  {"NETWORK_FAILED", "NETWORK_DISCONNECTED", "NETWORK_SERVER_DOWN",
   "SERVER_FAILED", "USER_SHUTDOWN", "CRASH"}
FileFatalReasons ==
  {"FILE_FAILED", "FILE_ACCESS_DENIED", "FILE_NO_SPACE",
   "FILE_NAME_TOO_LONG", "FILE_TOO_LARGE"}
NoResumeReasons ==
  {"NONE", "FILE_VIRUS_INFECTED", "SERVER_BAD_CONTENT", "USER_CANCELED",
   "FILE_BLOCKED", "FILE_SECURITY_CHECK_FAILED"}
Reasons ==
  TransientReasons \cup ServerRetryReasons \cup GenericReasons
    \cup FileFatalReasons \cup NoResumeReasons

\* The reasons the model's DownloadFile and network report: one of each case.
InterruptInputs ==
  {"NETWORK_TIMEOUT", "NETWORK_FAILED", "FILE_VIRUS_INFECTED"}
\* The reason an Initialize or a rename fails with.
FileErrors == {"FILE_FAILED"}

DangerTypes ==
  {"NOT_DANGEROUS", "DANGEROUS_FILE", "DANGEROUS_URL", "DANGEROUS_CONTENT",
   "UNCOMMON_CONTENT", "DANGEROUS_HOST", "USER_VALIDATED"}
\* What target determination and the content check answer in the model.
TargetDangerInputs == {"NOT_DANGEROUS", "DANGEROUS_FILE"}
ContentDangerInputs == {"NOT_DANGEROUS", "DANGEROUS_URL"}

ResumeModes ==
  {"INVALID", "IMMEDIATE_CONTINUE", "IMMEDIATE_RESTART", "USER_CONTINUE",
   "USER_RESTART"}

\* base::FilePath: empty, or <<directory, base name>>.
NoPath == <<>>
Dirs == {"A"}
TargetName == "t"
IntermediateName == "i"
DirName(p) == IF p = NoPath THEN "." ELSE p[1]

\* The serialized hash state of a file of b bytes, and the final hash.
HashStateOf(b) == IF b = 0 THEN "" ELSE "h"
FinalHash == "H"

----------------------------------------------------------------------------
(* The record a handler works on. *)

\* The log of a handler that has done nothing yet.
\* The DownloadUrlParameters a resumption is requested with, and the
\* ResumeMode they were built for.
NoParams ==
  [mode |-> "none", file_path |-> <<>>, offset |-> 0, hash_state |-> "",
   last_modified |-> "", etag |-> ""]

NoLog ==
  [op |-> "none",
   updates |-> 0,            \* OnDownloadUpdated broadcasts
   removed |-> 0,            \* OnDownloadRemoved broadcasts
   pause_request |-> 0,      \* request_handle_->PauseRequest()
   resume_request |-> 0,     \* request_handle_->ResumeRequest()
   cancel_request |-> 0,     \* request_handle_->CancelRequest()
   file_cancel |-> 0,        \* DownloadFileCancel posted with a handle
   file_detach |-> 0,        \* DownloadFileDetach posted with a handle
   null_teardown |-> 0,      \* a teardown task posted with a null handle
   inter_posted |-> 0,       \* RenameAndUniquify posted
   final_posted |-> 0,       \* RenameAndAnnotate posted
   file_deleted |-> 0,       \* DeleteDownloadedFile posted
   resume_issued |-> 0,      \* delegate_->ResumeInterruptedDownload()
   resume_params |-> NoParams, \* what it was last called with
   open_download |-> 0,      \* delegate_->OpenDownload()
   interrupt_arg |-> "none", \* the reason Interrupt() was called with
   mode |-> "none",          \* the ResumeMode GetResumeMode() last returned
   stored |-> "none",        \* the DownloadState the history constructor got
   gate |-> "none",          \* IsDownloadReadyForCompletion: blocked, passed
   asked_complete |-> "none",\* ShouldCompleteDownload's answer, when asked
   asked_open |-> "none",    \* ShouldOpenDownload's answer, when asked
   asked_extension |-> "none", \* ShouldOpenFileBasedOnExtension's answer
   auto_opened_arg |-> "none", \* what DelayedDownloadOpened() was called with
   completed |-> 0,          \* Completed() calls
   dcheck |-> {}]            \* the DCHECKs that failed

\* The collaborators' answers during one handler.
Oracle(wc, sc, so, ext) ==
  [web_contents |-> wc,      \* request_handle_->GetWebContents() != NULL
   should_complete |-> sc,   \* delegate_->ShouldCompleteDownload()
   should_open |-> so,       \* delegate_->ShouldOpenDownload()
   open_by_extension |-> ext,\* delegate_->ShouldOpenFileBasedOnExtension()
   observer |-> "none"]      \* what an observer calls in OnDownloadUpdated()

Begin(op, oracle) ==
  item @@ env @@ [NoLog EXCEPT !.op = op] @@ oracle

\* An oracle for the handlers that consult nobody.
Quiet == Oracle(FALSE, FALSE, FALSE, FALSE)

DCheck(c, ok, name) ==
  IF ok THEN c ELSE [c EXCEPT !.dcheck = @ \cup {name}]

\* A call through request_handle_; through a null pointer it ends the process.
RequestCall(c, what) ==
  IF c.request_handle_ = "NULL" THEN [c EXCEPT !.life = "crashed"]
  ELSE [c EXCEPT ![what] = @ + 1]

\* A task bound to base::Unretained(download_file_.get()) and posted to the
\* FILE thread; its callback comes back to the UI thread in posting order.
\* With no DownloadFile the task calls through a null pointer.
PostToFile(c, cb) ==
  IF c.download_file_ THEN [c EXCEPT !.file_cbs = Append(@, cb)]
  ELSE [c EXCEPT !.life = "crashed"]

----------------------------------------------------------------------------
(* DownloadItemImpl. *)

InternalToExternalState(internal_state) ==
  CASE internal_state = "IN_PROGRESS" -> "IN_PROGRESS"
    [] internal_state = "COMPLETING" -> "IN_PROGRESS"
    [] internal_state = "COMPLETE" -> "COMPLETE"
    [] internal_state = "CANCELLED" -> "CANCELLED"
    [] internal_state = "INTERRUPTED" -> "INTERRUPTED"

ExternalToInternalState(external_state) ==
  CASE external_state = "IN_PROGRESS" -> "IN_PROGRESS"
    [] external_state = "COMPLETE" -> "COMPLETE"
    [] external_state = "CANCELLED" -> "CANCELLED"
    [] external_state = "INTERRUPTED" -> "INTERRUPTED"

GetState(c) == InternalToExternalState(c.state_)
IsInProgress(c) == InternalToExternalState(c.state_) = "IN_PROGRESS"
IsInterrupted(c) == InternalToExternalState(c.state_) = "INTERRUPTED"

IsDangerous(c) ==
  IF OS_WIN
  THEN c.danger_type_ \in
         {"DANGEROUS_FILE", "DANGEROUS_URL", "DANGEROUS_CONTENT",
          "UNCOMMON_CONTENT", "DANGEROUS_HOST"}
  ELSE c.danger_type_ \in {"DANGEROUS_FILE", "DANGEROUS_URL"}

GetWebContents(c) == c.request_handle_ = "Real" /\ c.web_contents

SetDangerType(c, danger_type) == [c EXCEPT !.danger_type_ = danger_type]

\* GetResumeMode() as it would be if the server-retryable reasons continued
\* from the intermediate file like the transient ones.
ResumeModeContinuingAfterServerRetry(c) ==
  IF ~IsInterrupted(c) THEN "INVALID"
  ELSE LET force_restart == c.current_path_ = NoPath
           force_user == c.auto_resume_count_ >= kMaxAutoResumeAttempts
                           \/ c.is_paused_
       IN CASE c.last_reason_ \in TransientReasons \cup ServerRetryReasons ->
                 IF force_restart /\ force_user THEN "USER_RESTART"
                 ELSE IF force_restart THEN "IMMEDIATE_RESTART"
                 ELSE IF force_user THEN "USER_CONTINUE"
                 ELSE "IMMEDIATE_CONTINUE"
            [] c.last_reason_ \in GenericReasons ->
                 IF force_restart THEN "USER_RESTART" ELSE "USER_CONTINUE"
            [] c.last_reason_ \in FileFatalReasons -> "USER_RESTART"
            [] c.last_reason_ \in NoResumeReasons -> "INVALID"

\* GetResumeMode() as it would be without the cap on automatic resumptions.
ResumeModeWithoutCap(c) ==
  IF ~IsInterrupted(c) THEN "INVALID"
  ELSE LET force_restart == c.current_path_ = NoPath
           force_user == c.is_paused_
       IN CASE c.last_reason_ \in TransientReasons ->
                 IF force_restart /\ force_user THEN "USER_RESTART"
                 ELSE IF force_restart THEN "IMMEDIATE_RESTART"
                 ELSE IF force_user THEN "USER_CONTINUE"
                 ELSE "IMMEDIATE_CONTINUE"
            [] c.last_reason_ \in ServerRetryReasons ->
                 IF force_user THEN "USER_RESTART" ELSE "IMMEDIATE_RESTART"
            [] c.last_reason_ \in GenericReasons ->
                 IF force_restart THEN "USER_RESTART" ELSE "USER_CONTINUE"
            [] c.last_reason_ \in FileFatalReasons -> "USER_RESTART"
            [] c.last_reason_ \in NoResumeReasons -> "INVALID"

\* GetResumeMode() as it would be if a restart always waited for the user.
ResumeModeWithoutAutoRestart(c) ==
  IF ~IsInterrupted(c) THEN "INVALID"
  ELSE LET force_restart == c.current_path_ = NoPath
           force_user == c.auto_resume_count_ >= kMaxAutoResumeAttempts
                           \/ c.is_paused_
       IN CASE c.last_reason_ \in TransientReasons ->
                 IF force_restart THEN "USER_RESTART"
                 ELSE IF force_user THEN "USER_CONTINUE"
                 ELSE "IMMEDIATE_CONTINUE"
            [] c.last_reason_ \in ServerRetryReasons -> "USER_RESTART"
            [] c.last_reason_ \in GenericReasons ->
                 IF force_restart THEN "USER_RESTART" ELSE "USER_CONTINUE"
            [] c.last_reason_ \in FileFatalReasons -> "USER_RESTART"
            [] c.last_reason_ \in NoResumeReasons -> "INVALID"

GetResumeMode(c) ==
  IF ~IsInterrupted(c) THEN "INVALID"
  ELSE LET force_restart == c.current_path_ = NoPath
           force_user == c.auto_resume_count_ >= kMaxAutoResumeAttempts
                           \/ c.is_paused_
       IN CASE c.last_reason_ \in TransientReasons ->
                 IF force_restart /\ force_user THEN "USER_RESTART"
                 ELSE IF force_restart THEN "IMMEDIATE_RESTART"
                 ELSE IF force_user THEN "USER_CONTINUE"
                 ELSE "IMMEDIATE_CONTINUE"
            [] c.last_reason_ \in ServerRetryReasons ->
                 IF force_user THEN "USER_RESTART" ELSE "IMMEDIATE_RESTART"
            [] c.last_reason_ \in GenericReasons ->
                 IF force_restart THEN "USER_RESTART" ELSE "USER_CONTINUE"
            [] c.last_reason_ \in FileFatalReasons -> "USER_RESTART"
            [] c.last_reason_ \in NoResumeReasons -> "INVALID"

\* ResumeInterruptedDownload() as it would be if a restart also forgot that
\* the data had been saved.
ResumeForgettingAllDataSaved(c) ==
  IF ~c.resumption THEN c
  ELSE IF ~GetWebContents(c) THEN c
  ELSE [c EXCEPT !.received_bytes_ = 0, !.hash_state_ = "",
                 !.all_data_saved_ = FALSE,
                 !.resume_issued = @ + 1, !.start_pending = @ + 1,
                 !.resumes = @ + 1, !.is_paused_ = FALSE]

\* ResumeInterruptedDownload() as it would be if a restart kept the offset.
ResumeRestartingAtOffset(c) ==
  IF ~c.resumption THEN c
  ELSE IF ~GetWebContents(c) THEN c
  ELSE [c EXCEPT !.resume_issued = @ + 1, !.start_pending = @ + 1,
                 !.resumes = @ + 1, !.is_paused_ = FALSE,
                 !.resume_params =
                   [mode |-> GetResumeMode(c),
                    file_path |-> c.current_path_,
                    offset |-> c.received_bytes_,
                    hash_state |-> c.hash_state_,
                    last_modified |-> c.last_modified_time_,
                    etag |-> c.etag_]]

ResumeInterruptedDownload(c) ==
  IF ~c.resumption THEN c
  ELSE LET c0 == DCheck(c, IsInterrupted(c),
                        "ResumeInterruptedDownload:IsInterrupted()")
       IN IF ~GetWebContents(c0) THEN c0
          ELSE LET mode == GetResumeMode(c0)
                   c1 == IF mode \in {"IMMEDIATE_RESTART", "USER_RESTART"}
                         THEN [c0 EXCEPT !.received_bytes_ = 0,
                                         !.hash_state_ = "",
                                         !.last_modified_time_ = "",
                                         !.etag_ = ""]
                         ELSE c0
                   \* delegate_->ResumeInterruptedDownload(): the delegate
                   \* now owes the item a Start().
                   c2 == [c1 EXCEPT !.resume_issued = @ + 1,
                                    !.start_pending = @ + 1,
                                    !.resumes = @ + 1,
                                    !.resume_params =
                                      [mode |-> mode,
                                       file_path |-> c1.current_path_,
                                       offset |-> c1.received_bytes_,
                                       hash_state |-> c1.hash_state_,
                                       last_modified |->
                                         c1.last_modified_time_,
                                       etag |-> c1.etag_]]
               IN [c2 EXCEPT !.is_paused_ = FALSE]

\* AutoResumeIfValid() as it would be if it also resumed the downloads that
\* wait for the user.
AutoResumeInEveryMode(c) ==
  IF GetResumeMode(c) = "INVALID" THEN c
  ELSE ResumeInterruptedDownload([c EXCEPT !.auto_resume_count_ = @ + 1])

AutoResumeIfValid(c) ==
  LET mode == GetResumeMode(c)
  IN IF mode # "IMMEDIATE_RESTART" /\ mode # "IMMEDIATE_CONTINUE" THEN c
     ELSE ResumeInterruptedDownload(
            [c EXCEPT !.auto_resume_count_ = @ + 1])

\* CancelDownloadFile() as it would be if it dropped the DownloadFile
\* without posting DownloadFileCancel.
DropDownloadFile(c) ==
  [c EXCEPT !.download_file_ = FALSE]

CancelDownloadFile(c) ==
  IF ~c.is_save_package_download_ /\ c.download_file_
  THEN [c EXCEPT !.download_file_ = FALSE, !.file_cancel = @ + 1,
                 !.partial_file = "deleted"]
  ELSE c

\* The DownloadFileDetach task as it would be if it were bound to a copy of
\* the pointer, the item keeping its own.
DetachKeepingReference(c) ==
  IF c.download_file_ THEN [c EXCEPT !.file_detach = @ + 1]
  ELSE [c EXCEPT !.null_teardown = @ + 1, !.life = "crashed"]

\* PostTask(FILE, Bind(&DownloadFileDetach, base::Passed(&download_file_))):
\* the item's pointer is null afterwards; DownloadFileDetach of a null
\* pointer calls Detach() through it.
PostDownloadFileDetach(c) ==
  IF c.download_file_
  THEN [c EXCEPT !.download_file_ = FALSE, !.file_detach = @ + 1,
                 !.partial_file = "kept"]
  ELSE [c EXCEPT !.null_teardown = @ + 1, !.life = "crashed"]

\* Observer::OnDownloadUpdated(this) of an observer that only looks.
OnDownloadUpdated(c) == [c EXCEPT !.updates = @ + 1, !.observer = "none"]

\* TransitionTo, Interrupt, Cancel, Pause and Resume as an observer calls
\* them from inside OnDownloadUpdated(this): the observers they notify in
\* turn only look.
TransitionToFromObserver(c, new_state) ==
  IF c.state_ = new_state THEN c
  ELSE LET old_state == c.state_
           c1 == [c EXCEPT !.state_ = new_state]
       IN IF InternalToExternalState(new_state)
               # InternalToExternalState(old_state)
          THEN OnDownloadUpdated(c1)
          ELSE c1

InterruptFromObserver(c, reason) ==
  LET c0 == [c EXCEPT !.interrupt_arg = reason]
  IN IF c0.state_ # "IN_PROGRESS" THEN c0
     ELSE LET c1 == [c0 EXCEPT !.last_reason_ = reason]
              c2 == TransitionToFromObserver(c1, "INTERRUPTED")
              resume_mode == GetResumeMode(c2)
              c3 == IF resume_mode \in {"IMMEDIATE_RESTART", "USER_RESTART"}
                    THEN CancelDownloadFile(c2)
                    ELSE PostDownloadFileDetach(c2)
              c4 == RequestCall(c3, "cancel_request")
          IN AutoResumeIfValid([c4 EXCEPT !.mode = resume_mode])

CancelFromObserver(c, user_cancel) ==
  IF c.state_ # "IN_PROGRESS" /\ c.state_ # "INTERRUPTED" THEN c
  ELSE LET c1 == [c EXCEPT !.last_reason_ =
                     IF user_cancel THEN "USER_CANCELED"
                     ELSE "USER_SHUTDOWN"]
           c2 == CancelDownloadFile(c1)
           c3 == IF c2.state_ # "INTERRUPTED"
                 THEN RequestCall(c2, "cancel_request")
                 ELSE c2
       IN TransitionToFromObserver(c3, "CANCELLED")

PauseFromObserver(c) ==
  IF c.state_ # "IN_PROGRESS" \/ c.is_paused_ THEN c
  ELSE OnDownloadUpdated(
         [RequestCall(c, "pause_request") EXCEPT !.is_paused_ = TRUE])

ResumeFromObserver(c) ==
  IF c.state_ = "COMPLETE" \/ c.state_ = "COMPLETING" \/ ~c.is_paused_
  THEN c
  ELSE IF c.state_ = "INTERRUPTED"
  THEN ResumeInterruptedDownload([c EXCEPT !.auto_resume_count_ = 0])
  ELSE LET c1 == DCheck(c, c.state_ = "IN_PROGRESS",
                        "Resume:IN_PROGRESS_INTERNAL==state_")
       IN OnDownloadUpdated(
            [RequestCall(c1, "resume_request") EXCEPT !.is_paused_ = FALSE])

\* FOR_EACH_OBSERVER(Observer, observers_, OnDownloadUpdated(this)): the
\* observer runs inside the caller, and what it calls on the item runs to its
\* end before the caller goes on.  Each handler's observer calls back once.
UpdateObservers(c) ==
  LET c1 == OnDownloadUpdated(c)
  IN CASE c.observer = "none" -> c1
       [] c.observer = "Cancel" -> CancelFromObserver(c1, TRUE)
       [] c.observer = "Pause" -> PauseFromObserver(c1)
       [] c.observer = "Resume" -> ResumeFromObserver(c1)
       [] c.observer = "Interrupt" ->
            InterruptFromObserver(c1, "NETWORK_FAILED")

\* TransitionTo() as it would be if it notified on every change of the
\* internal state.
TransitionToNotifyingAlways(c, new_state) ==
  IF c.state_ = new_state THEN c
  ELSE UpdateObservers([c EXCEPT !.state_ = new_state])

TransitionTo(c, new_state) ==
  IF c.state_ = new_state THEN c
  ELSE LET old_state == c.state_
           c1 == [c EXCEPT !.state_ = new_state]
       IN IF InternalToExternalState(new_state)
               # InternalToExternalState(old_state)
          THEN UpdateObservers(c1)
          ELSE c1

SetFullPath(c, new_path) ==
  UpdateObservers(
    [DCheck(c, new_path # NoPath, "SetFullPath:!new_path.empty()")
       EXCEPT !.current_path_ = new_path])

\* Interrupt() as it would be if it kept the file in every resume mode.
InterruptKeepingFile(c, reason) ==
  LET c0 == [c EXCEPT !.interrupt_arg = reason]
  IN IF c0.state_ # "IN_PROGRESS" THEN c0
     ELSE LET c1 == [c0 EXCEPT !.last_reason_ = reason]
              c2 == TransitionTo(c1, "INTERRUPTED")
              resume_mode == GetResumeMode(c2)
              c3 == PostDownloadFileDetach(c2)
              c4 == RequestCall(c3, "cancel_request")
          IN AutoResumeIfValid([c4 EXCEPT !.mode = resume_mode])

\* Interrupt() as it would be without its early return.
InterruptInAnyState(c, reason) ==
  LET c1 == [c EXCEPT !.interrupt_arg = reason, !.last_reason_ = reason]
      c2 == TransitionTo(c1, "INTERRUPTED")
      resume_mode == GetResumeMode(c2)
      c3 == IF resume_mode \in {"IMMEDIATE_RESTART", "USER_RESTART"}
            THEN CancelDownloadFile(c2)
            ELSE PostDownloadFileDetach(c2)
  IN AutoResumeIfValid(RequestCall(c3, "cancel_request"))

Interrupt(c, reason) ==
  LET c0 == [c EXCEPT !.interrupt_arg = reason]
  IN IF c0.state_ # "IN_PROGRESS" THEN c0
     ELSE LET c1 == [c0 EXCEPT !.last_reason_ = reason]
              c2 == TransitionTo(c1, "INTERRUPTED")
              resume_mode == GetResumeMode(c2)
              c3 == IF resume_mode \in {"IMMEDIATE_RESTART", "USER_RESTART"}
                    THEN CancelDownloadFile(c2)
                    ELSE PostDownloadFileDetach(c2)
              c4 == RequestCall(c3, "cancel_request")
          IN AutoResumeIfValid([c4 EXCEPT !.mode = resume_mode])

\* Cancel() as it would be if it acted on a CANCELLED item again.
CancelAgain(c, user_cancel) ==
  IF c.state_ = "COMPLETE" \/ c.state_ = "COMPLETING" THEN c
  ELSE LET c1 == [c EXCEPT !.last_reason_ =
                     IF user_cancel THEN "USER_CANCELED"
                     ELSE "USER_SHUTDOWN"]
           c2 == CancelDownloadFile(c1)
           c3 == IF c2.state_ # "INTERRUPTED"
                 THEN RequestCall(c2, "cancel_request")
                 ELSE c2
       IN TransitionTo(c3, "CANCELLED")

\* Cancel() as it would be if it returned early in the terminal states only.
CancelWhileCompleting(c, user_cancel) ==
  IF c.state_ = "COMPLETE" \/ c.state_ = "CANCELLED" THEN c
  ELSE LET c1 == [c EXCEPT !.last_reason_ =
                     IF user_cancel THEN "USER_CANCELED"
                     ELSE "USER_SHUTDOWN"]
           c2 == CancelDownloadFile(c1)
           c3 == IF c2.state_ # "INTERRUPTED"
                 THEN RequestCall(c2, "cancel_request")
                 ELSE c2
       IN TransitionTo(c3, "CANCELLED")

Cancel(c, user_cancel) ==
  IF c.state_ # "IN_PROGRESS" /\ c.state_ # "INTERRUPTED" THEN c
  ELSE LET c1 == [c EXCEPT !.last_reason_ =
                     IF user_cancel THEN "USER_CANCELED"
                     ELSE "USER_SHUTDOWN"]
           c2 == CancelDownloadFile(c1)
           c3 == IF c2.state_ # "INTERRUPTED"
                 THEN RequestCall(c2, "cancel_request")
                 ELSE c2
       IN TransitionTo(c3, "CANCELLED")

Pause(c) ==
  IF c.state_ # "IN_PROGRESS" \/ c.is_paused_ THEN c
  ELSE UpdateObservers(
         [RequestCall(c, "pause_request") EXCEPT !.is_paused_ = TRUE])

\* Resume() as it would be if it left the counter of automatic resumptions.
ResumeKeepingCount(c) ==
  IF c.state_ = "COMPLETE" \/ c.state_ = "COMPLETING" \/ ~c.is_paused_ THEN c
  ELSE IF c.state_ = "INTERRUPTED" THEN ResumeInterruptedDownload(c)
  ELSE UpdateObservers([RequestCall(c, "resume_request")
                          EXCEPT !.is_paused_ = FALSE])

Resume(c) ==
  IF c.state_ = "COMPLETE" \/ c.state_ = "COMPLETING" \/ ~c.is_paused_
  THEN c
  ELSE IF c.state_ = "INTERRUPTED"
  THEN ResumeInterruptedDownload([c EXCEPT !.auto_resume_count_ = 0])
  ELSE LET c1 == DCheck(c, c.state_ = "IN_PROGRESS",
                        "Resume:IN_PROGRESS_INTERNAL==state_")
       IN UpdateObservers(
            [RequestCall(c1, "resume_request") EXCEPT !.is_paused_ = FALSE])

OpenDownload(c) ==
  IF c.state_ = "IN_PROGRESS"
  THEN IF ~c.is_temporary_
       THEN [c EXCEPT !.open_when_complete_ = ~c.open_when_complete_]
       ELSE c
  ELSE IF c.state_ # "COMPLETE" \/ c.file_externally_removed_ THEN c
  ELSE [c EXCEPT !.opened_ = TRUE, !.open_download = @ + 1]

\* Completed() as it would be if it opened temporary downloads too.
CompletedOpeningTemporary(c) ==
  LET AutoOpen(c1) ==
        IF c1.auto_opened_ THEN c1
        ELSE IF c1.open_when_complete_ \/ c1.is_temporary_
        THEN UpdateObservers([OpenDownload(c1) EXCEPT !.auto_opened_ = TRUE])
        ELSE IF c1.open_by_extension
        THEN UpdateObservers(
               [OpenDownload(c1) EXCEPT !.auto_opened_ = TRUE,
                                        !.asked_extension = "TRUE"])
        ELSE [c1 EXCEPT !.asked_extension = "FALSE"]
  IN CHOOSE r \in
       {AutoOpen(c1) :
          c1 \in {TransitionTo(
                    DCheck([c EXCEPT !.completed = @ + 1],
                           c.all_data_saved_, "Completed:all_data_saved_"),
                    "COMPLETE")}} : TRUE

\* ShouldOpenFileBasedOnExtension() is asked only if open_when_complete_
\* does not settle the disjunction, IsTemporary() only if both are false.
\* c1 is the item as TransitionTo() leaves it.
Completed(c) ==
  LET AutoOpen(c1) ==
        IF c1.auto_opened_ THEN c1
        ELSE IF c1.open_when_complete_
        THEN UpdateObservers(
               [(IF ~c1.is_temporary_ THEN OpenDownload(c1) ELSE c1)
                  EXCEPT !.auto_opened_ = TRUE])
        ELSE IF c1.open_by_extension \/ c1.is_temporary_
        THEN UpdateObservers(
               [(IF ~c1.is_temporary_ THEN OpenDownload(c1) ELSE c1)
                  EXCEPT !.auto_opened_ = TRUE,
                         !.asked_extension = ToString(c1.open_by_extension)])
        ELSE [c1 EXCEPT !.asked_extension = "FALSE"]
  IN CHOOSE r \in
       {AutoOpen(c1) :
          c1 \in {TransitionTo(
                    DCheck([c EXCEPT !.completed = @ + 1],
                           c.all_data_saved_, "Completed:all_data_saved_"),
                    "COMPLETE")}} : TRUE

\* IsDownloadReadyForCompletion() as it would be without its IsDangerous()
\* check.
ReadyForCompletionIgnoringDanger(c) ==
  IF ~c.all_data_saved_ THEN [c EXCEPT !.gate = "blocked"]
  ELSE IF c.state_ # "IN_PROGRESS" THEN [c EXCEPT !.gate = "blocked"]
  ELSE IF c.target_path_ = NoPath THEN [c EXCEPT !.gate = "blocked"]
  ELSE IF DirName(c.target_path_) # DirName(c.current_path_)
  THEN [c EXCEPT !.gate = "blocked"]
  ELSE IF ~c.should_complete
  THEN [c EXCEPT !.gate = "blocked", !.asked_complete = "false",
                 !.complete_retry = TRUE]
  ELSE [c EXCEPT !.gate = "passed", !.asked_complete = "true"]

\* IsDownloadReadyForCompletion() as it would be if it asked the delegate
\* before it looked at the item.
ReadyForCompletionAskingFirst(c) ==
  IF ~c.should_complete
  THEN [c EXCEPT !.gate = "blocked", !.asked_complete = "false",
                 !.complete_retry = TRUE]
  ELSE IF ~c.all_data_saved_ \/ IsDangerous(c) \/ c.state_ # "IN_PROGRESS"
          \/ c.target_path_ = NoPath
          \/ DirName(c.target_path_) # DirName(c.current_path_)
  THEN [c EXCEPT !.gate = "blocked", !.asked_complete = "true"]
  ELSE [c EXCEPT !.gate = "passed", !.asked_complete = "true"]

\* The result is in the gate field.  When the delegate answers false it keeps
\* the closure it was handed, to call MaybeCompleteDownload() later.
\* IsDownloadReadyForCompletion() as it would be without its all_data_saved_
\* check.
ReadyForCompletionBeforeAllData(c) ==
  IF IsDangerous(c) THEN [c EXCEPT !.gate = "blocked"]
  ELSE IF c.state_ # "IN_PROGRESS" THEN [c EXCEPT !.gate = "blocked"]
  ELSE IF c.target_path_ = NoPath THEN [c EXCEPT !.gate = "blocked"]
  ELSE IF DirName(c.target_path_) # DirName(c.current_path_)
  THEN [c EXCEPT !.gate = "blocked"]
  ELSE IF ~c.should_complete
  THEN [c EXCEPT !.gate = "blocked", !.asked_complete = "false",
                 !.complete_retry = TRUE]
  ELSE [c EXCEPT !.gate = "passed", !.asked_complete = "true"]

IsDownloadReadyForCompletion(c) ==
  IF ~c.all_data_saved_ THEN [c EXCEPT !.gate = "blocked"]
  ELSE IF IsDangerous(c) THEN [c EXCEPT !.gate = "blocked"]
  ELSE IF c.state_ # "IN_PROGRESS" THEN [c EXCEPT !.gate = "blocked"]
  ELSE IF c.target_path_ = NoPath THEN [c EXCEPT !.gate = "blocked"]
  ELSE IF DirName(c.target_path_) # DirName(c.current_path_)
  THEN [c EXCEPT !.gate = "blocked"]
  ELSE IF ~c.should_complete
  THEN [c EXCEPT !.gate = "blocked", !.asked_complete = "false",
                 !.complete_retry = TRUE]
  ELSE [c EXCEPT !.gate = "passed", !.asked_complete = "true"]

OnDownloadCompleting(c) ==
  IF c.state_ # "IN_PROGRESS" THEN c
  ELSE LET c0 == DCheck(
                   DCheck(c, c.target_path_ # NoPath,
                          "OnDownloadCompleting:!GetTargetFilePath().empty()"),
                   ~IsDangerous(c), "OnDownloadCompleting:!IsDangerous()")
       IN IF c0.is_save_package_download_ THEN Completed(c0)
          ELSE LET c1 == DCheck(c0, c0.download_file_,
                                "OnDownloadCompleting:download_file_.get()")
               IN PostToFile([c1 EXCEPT !.final_posted = @ + 1],
                             <<"final", c1.target_path_>>)

MaybeCompleteDownload(c) ==
  LET c0 == DCheck(c, ~c.is_save_package_download_,
                   "MaybeCompleteDownload:!is_save_package_download_")
      c1 == IsDownloadReadyForCompletion(c0)
  IN IF c1.gate # "passed" THEN c1
     ELSE LET c2 == DCheck(c1, c1.state_ = "IN_PROGRESS",
                           "MaybeCompleteDownload:IN_PROGRESS_INTERNAL==state_")
              c3 == DCheck(c2, ~IsDangerous(c2),
                           "MaybeCompleteDownload:!IsDangerous()")
              c4 == DCheck(c3, c3.all_data_saved_,
                           "MaybeCompleteDownload:all_data_saved_")
          IN OnDownloadCompleting(c4)

DangerousDownloadValidated(c) ==
  LET c0 == DCheck(
              DCheck(c, GetState(c) = "IN_PROGRESS",
                     "DangerousDownloadValidated:IN_PROGRESS==GetState()"),
              IsDangerous(c), "DangerousDownloadValidated:IsDangerous()")
  IN IF GetState(c0) # "IN_PROGRESS" THEN c0
     ELSE MaybeCompleteDownload(
            UpdateObservers([c0 EXCEPT !.danger_type_ = "USER_VALIDATED"]))

OnContentCheckCompleted(c, danger_type) ==
  UpdateObservers(
    SetDangerType(
      DCheck(c, c.all_data_saved_, "OnContentCheckCompleted:AllDataSaved()"),
      danger_type))

UpdateProgress(c, bytes_so_far, bytes_per_sec, hash_state) ==
  IF c.state_ # "IN_PROGRESS" THEN c
  ELSE LET c1 == [c EXCEPT !.bytes_per_sec_ = bytes_per_sec,
                           !.hash_state_ = hash_state,
                           !.received_bytes_ = bytes_so_far]
           c2 == IF c1.received_bytes_ > c1.total_bytes_
                 THEN [c1 EXCEPT !.total_bytes_ = 0]
                 ELSE c1
       IN UpdateObservers(c2)

\* PercentComplete() as it would be if it rounded to the nearest percent.
PercentCompleteRounded(c) ==
  IF c.delegate_delayed_complete_ \/ c.total_bytes_ <= 0 THEN -1
  ELSE (c.received_bytes_ * 200 + c.total_bytes_) \div (2 * c.total_bytes_)

\* static_cast<int>(received_bytes_ * 100.0 / total_bytes_): the quotient is
\* taken in double and truncated towards zero.  The operands are below 2^53,
\* where the product is exact and the rounded quotient never reaches the next
\* integer from below, so that the result is the integer quotient.
PercentComplete(c) ==
  IF c.delegate_delayed_complete_ \/ c.total_bytes_ <= 0 THEN -1
  ELSE LET n == c.received_bytes_ * 100
       IN IF n >= 0 THEN n \div c.total_bytes_
          ELSE -((-n) \div c.total_bytes_)

SetOpenWhenComplete(c, open) == [c EXCEPT !.open_when_complete_ = open]

SetIsTemporary(c, temporary) == [c EXCEPT !.is_temporary_ = temporary]

OnDownloadedFileRemoved(c) ==
  UpdateObservers([c EXCEPT !.file_externally_removed_ = TRUE])

SetTotalBytes(c, total_bytes) ==
  [c EXCEPT !.total_bytes_ = total_bytes]

OnAllDataSaved(c, final_hash) ==
  LET c0 == DCheck(
              DCheck(c, c.state_ = "IN_PROGRESS",
                     "OnAllDataSaved:IN_PROGRESS_INTERNAL==state_"),
              ~c.all_data_saved_, "OnAllDataSaved:!all_data_saved_")
  IN UpdateObservers([c0 EXCEPT !.all_data_saved_ = TRUE,
                                !.hash_ = final_hash,
                                !.hash_state_ = ""])

MarkAsComplete(c) ==
  TransitionTo(DCheck(c, c.all_data_saved_, "MarkAsComplete:all_data_saved_"),
               "COMPLETE")

DestinationUpdate(c, bytes_so_far, bytes_per_sec, hash_state) ==
  IF ~IsInProgress(c) THEN c
  ELSE LET c1 == [c EXCEPT !.bytes_per_sec_ = bytes_per_sec,
                           !.hash_state_ = hash_state,
                           !.received_bytes_ = bytes_so_far]
           c2 == IF c1.received_bytes_ > c1.total_bytes_
                 THEN [c1 EXCEPT !.total_bytes_ = 0]
                 ELSE c1
       IN UpdateObservers(c2)

DestinationError(c, reason) == Interrupt(c, reason)

DestinationCompleted(c, final_hash) ==
  IF ~IsInProgress(c) THEN c
  ELSE MaybeCompleteDownload(OnAllDataSaved(c, final_hash))

\* Start() as it would be if it left last_reason_ alone.
StartKeepingReason(c) ==
  LET c0 == DCheck(c, ~c.download_file_, "Start:!download_file_.get()")
      c1 == [c0 EXCEPT !.download_file_ = TRUE,
                       !.request_handle_ = "Real",
                       !.start_pending = @ - 1,
                       !.streaming = FALSE,
                       !.partial_file = "open"]
      c2 == TransitionTo(c1, "IN_PROGRESS")
  IN PostToFile(c2, <<"init">>)

Start(c) ==
  LET c0 == DCheck(c, ~c.download_file_, "Start:!download_file_.get()")
      \* The delegate's Start() answers one request; the new DownloadFile
      \* reports nothing before it is initialized.
      c1 == [c0 EXCEPT !.download_file_ = TRUE,
                       !.request_handle_ = "Real",
                       !.start_pending = @ - 1,
                       !.streaming = FALSE,
                       !.partial_file = "open"]
      c2 == TransitionTo(c1, "IN_PROGRESS")
      c3 == [c2 EXCEPT !.last_reason_ = "NONE"]
  IN PostToFile(c3, <<"init">>)

OnDownloadFileInitialized(c, result) ==
  LET c0 == IF result # "NONE" THEN Interrupt(c, result) ELSE c
  IN IF c0.target_path_ # NoPath /\ c0.current_path_ # NoPath
     THEN MaybeCompleteDownload(c0)
     ELSE \* delegate_->DetermineDownloadTarget(): the delegate now owes
          \* the item an OnDownloadTargetDetermined().
          [c0 EXCEPT !.target_path_ = NoPath, !.target_pending = @ + 1]

OnDownloadTargetDetermined(c, target_path, disposition, danger_type, intermediate_path) ==
  IF target_path = NoPath THEN Cancel(c, TRUE)
  ELSE LET c1 == SetDangerType(
                   [c EXCEPT !.target_path_ = target_path,
                             !.target_disposition_ = disposition],
                   danger_type)
           c2 == DCheck(c1, DirName(intermediate_path) = DirName(target_path),
                        "OnDownloadTargetDetermined:DirName")
           c3 == DCheck(c2, ~c2.is_save_package_download_,
                        "OnDownloadTargetDetermined:!is_save_package_download_")
           c4 == DCheck(c3, c3.download_file_,
                        "OnDownloadTargetDetermined:download_file_.get()")
       IN PostToFile([c4 EXCEPT !.inter_posted = @ + 1],
                     <<"inter", intermediate_path>>)

OnDownloadRenamedToIntermediateName(c, reason, full_path) ==
  LET c0 == IF reason # "NONE" THEN Interrupt(c, reason)
            ELSE SetFullPath(c, full_path)
  IN MaybeCompleteDownload(c0)

OnDownloadRenamedToFinalName(c, reason, full_path) ==
  LET c0 == DCheck(c, ~c.is_save_package_download_,
                   "OnDownloadRenamedToFinalName:!is_save_package_download_")
  IN IF c0.state_ # "IN_PROGRESS" THEN c0
     ELSE IF reason # "NONE" THEN Interrupt(c0, reason)
     ELSE LET c1 == DCheck(c0, c0.target_path_ = full_path,
                           "OnDownloadRenamedToFinalName:target_path_==full_path")
              c2 == IF full_path # c1.current_path_
                    THEN SetFullPath(c1, full_path)
                    ELSE c1
              c3 == PostDownloadFileDetach(
                      DCheck(c2, c2.download_file_,
                             "OnDownloadRenamedToFinalName:download_file_.get()"))
              c4 == TransitionTo(c3, "COMPLETING")
          IN IF c4.should_open
             THEN Completed([c4 EXCEPT !.asked_open = "true"])
             ELSE [c4 EXCEPT !.asked_open = "false",
                             !.delegate_delayed_complete_ = TRUE,
                             !.open_pending = TRUE]

DelayedDownloadOpened(c, auto_opened) ==
  Completed([c EXCEPT !.auto_opened_ = auto_opened,
                      !.auto_opened_arg = ToString(auto_opened)])

NotifyRemoved(c) == [c EXCEPT !.removed = @ + 1]

\* delegate_->DownloadRemoved(this) deletes the item.
Remove(c) == [NotifyRemoved(Cancel(c, TRUE)) EXCEPT !.life = "removed"]

\* The file is deleted here unless a DownloadFile owns it.
Delete(c) ==
  Remove(IF c.current_path_ # NoPath /\ ~c.download_file_
         THEN [c EXCEPT !.file_deleted = @ + 1]
         ELSE c)

----------------------------------------------------------------------------
(* Construction. *)

\* Init(): the target path defaults to the current path.
InitPaths(c) ==
  IF c.target_path_ = NoPath THEN [c EXCEPT !.target_path_ = c.current_path_]
  ELSE c

\* The constructor for a regular download.
RegularItem(total_bytes, forced_file_path) ==
  InitPaths(
    [is_save_package_download_ |-> FALSE,
     request_handle_ |-> "NULL",
     download_file_ |-> FALSE,
     current_path_ |-> NoPath,
     target_path_ |-> NoPath,
     target_disposition_ |-> "OVERWRITE",
     total_bytes_ |-> total_bytes,
     received_bytes_ |-> 0,
     bytes_per_sec_ |-> 0,
     hash_state_ |-> "",
     hash_ |-> "",
     last_modified_time_ |-> "",
     etag_ |-> "",
     last_reason_ |-> "NONE",
     state_ |-> "IN_PROGRESS",
     danger_type_ |-> "NOT_DANGEROUS",
     is_paused_ |-> FALSE,
     auto_resume_count_ |-> 0,
     open_when_complete_ |-> FALSE,
     file_externally_removed_ |-> FALSE,
     auto_opened_ |-> FALSE,
     is_temporary_ |-> forced_file_path # NoPath,
     all_data_saved_ |-> FALSE,
     opened_ |-> FALSE,
     delegate_delayed_complete_ |-> FALSE])

\* The constructor for "Save Page As...".
SavePackageItem(path) ==
  InitPaths(
    [RegularItem(0, NoPath) EXCEPT
       !.is_save_package_download_ = TRUE,
       !.request_handle_ = "Null",   \* a NullDownloadRequestHandle
       !.current_path_ = path,
       !.target_path_ = path])

\* The constructor for an item read from the history service.
\* The history constructor as it would be without its correction of a
\* stored IN_PROGRESS.
HistoryItemKeepingInProgress(current_path, target_path, received_bytes, total_bytes, state, danger_type, interrupt_reason, opened) ==
  LET c0 == [RegularItem(total_bytes, NoPath) EXCEPT
               !.current_path_ = current_path,
               !.target_path_ = target_path,
               !.received_bytes_ = received_bytes,
               !.last_reason_ = interrupt_reason,
               !.state_ = ExternalToInternalState(state),
               !.danger_type_ = danger_type,
               !.opened_ = opened]
      c2 == IF c0.state_ = "COMPLETE"
            THEN [c0 EXCEPT !.all_data_saved_ = TRUE]
            ELSE c0
  IN InitPaths(c2)

HistoryItem(current_path, target_path, received_bytes, total_bytes, state, danger_type, interrupt_reason, opened) ==
  LET c0 == [RegularItem(total_bytes, NoPath) EXCEPT
               !.current_path_ = current_path,
               !.target_path_ = target_path,
               !.received_bytes_ = received_bytes,
               !.last_reason_ = interrupt_reason,
               !.state_ = ExternalToInternalState(state),
               !.danger_type_ = danger_type,
               !.opened_ = opened]
      c1 == IF c0.state_ = "IN_PROGRESS"
            THEN [c0 EXCEPT !.state_ = "CANCELLED"]
            ELSE c0
      c2 == IF c1.state_ = "COMPLETE"
            THEN [c1 EXCEPT !.all_data_saved_ = TRUE]
            ELSE c1
  IN InitPaths(c2)

\* What is in flight around a new item.  starts is 1 for a regular download:
\* the download manager that constructed it calls Start() next.
NewEnv(starts, resumption) ==
  [life |-> "alive",           \* alive, removed (deleted), crashed
   file_cbs |-> <<>>,          \* callbacks queued from the FILE thread
   target_pending |-> 0,       \* DetermineDownloadTarget() calls unanswered
   start_pending |-> starts,   \* Start() calls the delegate owes the item
   complete_retry |-> FALSE,   \* the delegate holds MaybeCompleteDownload
   open_pending |-> FALSE,     \* the delegate holds DelayedDownloadOpened
   streaming |-> FALSE,        \* the DownloadFile has its end to report yet
   resumption |-> resumption,  \* switches::kEnableDownloadResumption
   resumes |-> 0,              \* resumption requests issued so far
   resume_cap |-> MaxResumes,  \* the bound on resumes in this behaviour
   byte_cap |-> MaxBytes,      \* the bound on byte counts in this behaviour
   dirs |-> Dirs,              \* where the delegate may put the download
   pending_cap |-> MaxPending, \* the bound on unanswered determinations
   partial_file |-> "none"]    \* the newest DownloadFile's file: none, open,
                               \* kept (Detach), deleted (Cancel)

HistoryPaths == {<<NoPath, NoPath>>, <<<<"A", IntermediateName>>, NoPath>>,
                 <<<<"A", TargetName>>, <<"A", TargetName>>>>}

Init ==
  /\ log = NoLog
  /\ \E resumption \in BOOLEAN :
       \/ /\ \E total_bytes \in {MaxBytes},
                forced_file_path \in {NoPath} :
                item = RegularItem(total_bytes, forced_file_path)
          /\ env = NewEnv(1, resumption)
       \/ /\ item = SavePackageItem(<<"A", TargetName>>)
          /\ env = NewEnv(0, resumption)
       \/ /\ \E paths \in HistoryPaths, state \in ExternalStates,
                danger_type \in TargetDangerInputs,
                interrupt_reason \in {"NONE", "NETWORK_FAILED"} :
                item = HistoryItem(paths[1], paths[2], MaxBytes, MaxBytes,
                                   state, danger_type, interrupt_reason,
                                   FALSE)
          /\ env = NewEnv(0, resumption)

----------------------------------------------------------------------------
(* Actions: one per public method or callback. *)

Alive == env.life = "alive"

\* A regular item between its construction and the Start() that the
\* download manager issues in the same task: nothing else runs in between.
NotStarted == item.request_handle_ = "NULL" /\ env.start_pending > 0

Callable == Alive /\ ~NotStarted

\* A DownloadFile has existed: its messages may arrive, also late.
HasHadFile == item.request_handle_ = "Real"

\* Whether the handler called out, notified an observer or failed a DCHECK.
Effects(c) ==
  \/ c.updates + c.removed > 0
  \/ c.pause_request + c.resume_request + c.cancel_request > 0
  \/ c.file_cancel + c.file_detach + c.null_teardown > 0
  \/ c.inter_posted + c.final_posted + c.file_deleted > 0
  \/ c.resume_issued + c.open_download > 0
  \/ c.dcheck # {}

\* The handler's result becomes the state.  A handler that returned without
\* changing the item, what is in flight, or anything outside is a stuttering
\* step: the log is that of the last handler that did something.
Store(c) ==
  /\ Len(c.file_cbs) <= MaxQueue
  /\ c.target_pending <= c.pending_cap
  /\ c.start_pending <= MaxPending
  /\ c.resumes <= c.resume_cap
  /\ LET item1 == [f \in DOMAIN item |-> c[f]]
         env1 == [f \in DOMAIN env |-> c[f]]
     IN IF item1 = item /\ env1 = env /\ ~Effects(c)
        THEN UNCHANGED vars
        ELSE /\ item' = item1
             /\ env' = env1
             /\ log' = [f \in DOMAIN log |-> c[f]]

Oracles(W, C, O, E) ==
  {Oracle(wc, sc, so, ext) : wc \in W, sc \in C, so \in O, ext \in E}
No == {FALSE}

\* bytes_so_far, bytes_per_sec and hash_state of one progress report.
ProgressInputs == {<<b, b, HashStateOf(b)>> : b \in 0..env.byte_cap}

\* The head of the FILE thread's callbacks is taken off for its handler.
Pop(c) == [c EXCEPT !.file_cbs = Tail(@)]

DoStart ==
  /\ Alive
  /\ env.start_pending > 0
  /\ Store(Start(Begin("Start", Quiet)))

DoPause ==
  /\ Callable
  /\ Store(Pause(Begin("Pause", Quiet)))

DoResume ==
  /\ Callable
  /\ \E o \in Oracles(BOOLEAN, No, No, No) :
       Store(Resume(Begin("Resume", o)))

DoCancel ==
  /\ Callable
  /\ \E user_cancel \in BOOLEAN :
       Store(Cancel(Begin("Cancel", Quiet),
                    user_cancel))

DoRemove ==
  /\ Callable
  /\ Store(Remove(Begin("Remove", Quiet)))

DoDelete ==
  /\ Callable
  /\ Store(Delete(Begin("Delete", Quiet)))

\* The UI offers the validation of a download it shows as dangerous.
DoDangerousDownloadValidated ==
  /\ Callable
  /\ GetState(item) = "IN_PROGRESS"
  /\ IsDangerous(item)
  /\ \E o \in Oracles(No, BOOLEAN, No, BOOLEAN) :
       Store(DangerousDownloadValidated(
               Begin("DangerousDownloadValidated", o)))

\* The delegate reports a content check once all data is saved.
DoOnContentCheckCompleted ==
  /\ Callable
  /\ item.all_data_saved_
  /\ \E danger_type \in ContentDangerInputs :
       Store(OnContentCheckCompleted(
               Begin("OnContentCheckCompleted", Quiet),
               danger_type))

\* SavePackage reports its progress through UpdateProgress().
DoUpdateProgress ==
  /\ Callable
  /\ item.is_save_package_download_
  /\ \E p \in ProgressInputs :
       Store(UpdateProgress(Begin("UpdateProgress", Quiet),
                            p[1], p[2], p[3]))

\* SavePackage sets the total as it learns the number of files to save.
DoSetTotalBytes ==
  /\ Callable
  /\ item.is_save_package_download_
  /\ \E total_bytes \in 0..env.byte_cap :
       Store(SetTotalBytes(Begin("SetTotalBytes", Quiet), total_bytes))

\* A DownloadFile reports progress until it reports its end.
DoDestinationUpdate ==
  /\ Callable
  /\ HasHadFile
  /\ env.streaming
  /\ \E p \in ProgressInputs :
       Store(DestinationUpdate(Begin("DestinationUpdate", Quiet),
                               p[1], p[2], p[3]))

\* Each DownloadFile reports its end once: an error or the completion.
DoDestinationError ==
  /\ Callable
  /\ HasHadFile
  /\ env.streaming
  /\ \E reason \in InterruptInputs, o \in Oracles(BOOLEAN, No, No, No) :
       Store(DestinationError(
               [Begin("DestinationError", o)
                  EXCEPT !.streaming = FALSE],
               reason))

DoDestinationCompleted ==
  /\ Callable
  /\ HasHadFile
  /\ env.streaming
  /\ \E o \in Oracles(No, BOOLEAN, No, No) :
       Store(DestinationCompleted(
               [Begin("DestinationCompleted", o)
                  EXCEPT !.streaming = FALSE],
               FinalHash))

\* SavePackage::Finish() reports the data saved and then the completion.
DoOnAllDataSaved ==
  /\ Callable
  /\ item.is_save_package_download_
  /\ item.state_ = "IN_PROGRESS"
  /\ ~item.all_data_saved_
  /\ Store(OnAllDataSaved(Begin("OnAllDataSaved", Quiet), FinalHash))

DoMarkAsComplete ==
  /\ Callable
  /\ item.is_save_package_download_
  /\ item.state_ = "IN_PROGRESS"
  /\ item.all_data_saved_
  /\ Store(MarkAsComplete(Begin("MarkAsComplete", Quiet)))

\* Initialize() answers with an error or with success; the DownloadFile
\* that Start() passed last reads its stream once it is initialized, and
\* its reports reach the UI thread after this callback.
DoOnDownloadFileInitialized ==
  /\ Callable
  /\ env.file_cbs # <<>>
  /\ Head(env.file_cbs)[1] = "init"
  /\ \E result \in {"NONE"} \cup FileErrors,
        o \in Oracles(BOOLEAN, BOOLEAN, No, No) :
       LET newest == \A i \in 2..Len(env.file_cbs) :
                       env.file_cbs[i][1] # "init"
       IN Store(OnDownloadFileInitialized(
                  [Pop(Begin("OnDownloadFileInitialized", o))
                     EXCEPT !.streaming = (result = "NONE" /\ newest) \/ @],
                  result))

\* The delegate answers a DetermineDownloadTarget(): no target, or a target
\* and an intermediate name in the target's directory.
DoOnDownloadTargetDetermined ==
  /\ Callable
  /\ env.target_pending > 0
  /\ \E dir \in env.dirs \cup {"."}, danger_type \in TargetDangerInputs :
       LET target_path == IF dir = "." THEN NoPath ELSE <<dir, TargetName>>
           intermediate_path ==
             IF dir = "." THEN NoPath ELSE <<dir, IntermediateName>>
       IN Store(OnDownloadTargetDetermined(
                  [Begin("OnDownloadTargetDetermined", Quiet)
                     EXCEPT !.target_pending = @ - 1],
                  target_path, "OVERWRITE", danger_type, intermediate_path))

\* RenameAndUniquify() answers with an error, or with the name it gave.
DoOnDownloadRenamedToIntermediateName ==
  /\ Callable
  /\ env.file_cbs # <<>>
  /\ Head(env.file_cbs)[1] = "inter"
  /\ \E reason \in {"NONE"} \cup FileErrors,
        o \in Oracles(BOOLEAN, BOOLEAN, No, No) :
       Store(OnDownloadRenamedToIntermediateName(
               Pop(Begin("OnDownloadRenamedToIntermediateName", o)),
               reason,
               IF reason = "NONE" THEN Head(env.file_cbs)[2] ELSE NoPath))

DoOnDownloadRenamedToFinalName ==
  /\ Callable
  /\ env.file_cbs # <<>>
  /\ Head(env.file_cbs)[1] = "final"
  /\ \E reason \in {"NONE"} \cup FileErrors,
        o \in Oracles(BOOLEAN, No, BOOLEAN, BOOLEAN) :
       Store(OnDownloadRenamedToFinalName(
               Pop(Begin("OnDownloadRenamedToFinalName", o)),
               reason,
               IF reason = "NONE" THEN Head(env.file_cbs)[2] ELSE NoPath))

\* The delegate calls the closure ShouldCompleteDownload() left with it; for
\* a SavePackage download its observers call MaybeCompleteDownload() too.
DoMaybeCompleteDownload ==
  /\ Callable
  /\ env.complete_retry \/ item.is_save_package_download_
  /\ \E o \in Oracles(No, BOOLEAN, No, BOOLEAN) :
       Store(MaybeCompleteDownload(
               [Begin("MaybeCompleteDownload", o)
                  EXCEPT !.complete_retry = FALSE]))

\* The delegate calls the closure ShouldOpenDownload() left with it.
DoDelayedDownloadOpened ==
  /\ Callable
  /\ env.open_pending
  /\ \E auto_opened \in BOOLEAN, o \in Oracles(No, No, No, BOOLEAN) :
       Store(DelayedDownloadOpened(
               [Begin("DelayedDownloadOpened", o)
                  EXCEPT !.open_pending = FALSE],
               auto_opened))

Next ==
  \/ DoStart
  \/ DoPause
  \/ DoResume
  \/ DoCancel
  \/ DoRemove
  \/ DoDelete
  \/ DoDangerousDownloadValidated
  \/ DoOnContentCheckCompleted
  \/ DoUpdateProgress
  \/ DoSetTotalBytes
  \/ DoDestinationUpdate
  \/ DoDestinationError
  \/ DoDestinationCompleted
  \/ DoOnAllDataSaved
  \/ DoMarkAsComplete
  \/ DoOnDownloadFileInitialized
  \/ DoOnDownloadTargetDetermined
  \/ DoOnDownloadRenamedToIntermediateName
  \/ DoOnDownloadRenamedToFinalName
  \/ DoMaybeCompleteDownload
  \/ DoDelayedDownloadOpened

Spec == Init /\ [][Next]_vars

----------------------------------------------------------------------------
(* GetResumeMode() on its own: every internal state, every interrupt       *)
(* reason, with and without an intermediate file, every value of the       *)
(* counter up to its cap, paused or not.                                   *)

InitResumeMode ==
  /\ log = NoLog
  /\ env = NewEnv(0, TRUE)
  /\ \E state \in InternalStates, reason \in Reasons,
        path \in {NoPath, <<"A", IntermediateName>>},
        count \in 0..kMaxAutoResumeAttempts, paused \in BOOLEAN :
       item = [RegularItem(MaxBytes, NoPath) EXCEPT
                 !.request_handle_ = "Real",
                 !.state_ = state,
                 !.last_reason_ = reason,
                 !.current_path_ = path,
                 !.auto_resume_count_ = count,
                 !.is_paused_ = paused]

DoGetResumeMode ==
  /\ log' = [NoLog EXCEPT !.op = "GetResumeMode",
                          !.mode = GetResumeMode(Begin("GetResumeMode", Quiet))]
  /\ UNCHANGED <<item, env>>

NextResumeMode == DoGetResumeMode

SpecResumeMode == InitResumeMode /\ [][NextResumeMode]_vars

----------------------------------------------------------------------------
(* Automatic resumption: a regular download that is interrupted and         *)
(* resumed up to MaxAutoResumes times, without the completion cascade.     *)

InitAutoResume ==
  /\ log = NoLog
  /\ item = RegularItem(MaxBytes, NoPath)
  /\ \E resumption \in BOOLEAN :
       env = [NewEnv(1, resumption) EXCEPT !.resume_cap = MaxAutoResumes]

NextAutoResume ==
  \/ DoStart
  \/ DoPause
  \/ DoResume
  \/ DoCancel
  \/ DoDestinationError
  \/ DoOnDownloadFileInitialized
  \/ DoOnDownloadTargetDetermined
  \/ DoOnDownloadRenamedToIntermediateName

SpecAutoResume == InitAutoResume /\ [][NextAutoResume]_vars

----------------------------------------------------------------------------
(* Byte counts up to MaxProgress: a SavePackage item, whose owner sets the *)
(* total and reports the progress, and a regular download, whose           *)
(* DownloadFile reports the progress.                                      *)

InitProgress ==
  /\ log = NoLog
  /\ \E resumption \in BOOLEAN :
       \/ /\ item = SavePackageItem(<<"A", TargetName>>)
          /\ env = [NewEnv(0, resumption) EXCEPT !.byte_cap = MaxProgress]
       \/ /\ \E total_bytes \in 0..MaxProgress :
                item = RegularItem(total_bytes, NoPath)
          /\ env = [NewEnv(1, resumption) EXCEPT !.byte_cap = MaxProgress]

NextProgress ==
  \/ DoStart
  \/ DoPause
  \/ DoCancel
  \/ DoSetTotalBytes
  \/ DoUpdateProgress
  \/ DoDestinationUpdate
  \/ DoDestinationError
  \/ DoOnDownloadFileInitialized

SpecProgress == InitProgress /\ [][NextProgress]_vars

----------------------------------------------------------------------------
(* IsDownloadReadyForCompletion() on its own: every value of the fields it *)
(* reads, paths in two directories, and both answers of the delegate.      *)

GateDirs == {"A", "B"}

InitGate ==
  /\ log = NoLog
  /\ env = NewEnv(0, TRUE)
  /\ \E saved \in BOOLEAN, danger_type \in DangerTypes,
        state \in InternalStates,
        target \in {NoPath} \cup {<<d, TargetName>> : d \in GateDirs},
        current \in {NoPath} \cup {<<d, IntermediateName>> : d \in GateDirs} :
       item = [RegularItem(MaxBytes, NoPath) EXCEPT
                 !.request_handle_ = "Real",
                 !.all_data_saved_ = saved,
                 !.danger_type_ = danger_type,
                 !.state_ = state,
                 !.target_path_ = target,
                 !.current_path_ = current]

DoIsDownloadReadyForCompletion ==
  \E o \in Oracles(No, BOOLEAN, No, No) :
    LET c == IsDownloadReadyForCompletion(
               Begin("IsDownloadReadyForCompletion", o))
    IN /\ item' = [f \in DOMAIN item |-> c[f]]
       /\ env' = [f \in DOMAIN env |-> c[f]]
       /\ log' = [f \in DOMAIN log |-> c[f]]

NextGate == DoIsDownloadReadyForCompletion

SpecGate == InitGate /\ [][NextGate]_vars

----------------------------------------------------------------------------
(* Observers that call back into the item from OnDownloadUpdated().        *)

ObserverCalls == {"Cancel", "Pause", "Resume", "Interrupt"}

InitReentrant ==
  /\ log = NoLog
  /\ item = RegularItem(MaxBytes, NoPath)
  /\ \E resumption \in BOOLEAN : env = NewEnv(1, resumption)

DoObservedPause ==
  /\ Callable
  /\ \E call \in ObserverCalls :
       Store(Pause([Begin("Pause", Quiet) EXCEPT !.observer = call]))

DoObservedResume ==
  /\ Callable
  /\ \E o \in Oracles(BOOLEAN, No, No, No), call \in ObserverCalls :
       Store(Resume([Begin("Resume", o) EXCEPT !.observer = call]))

DoObservedCancel ==
  /\ Callable
  /\ \E user_cancel \in BOOLEAN, call \in ObserverCalls :
       Store(Cancel([Begin("Cancel", Quiet) EXCEPT !.observer = call],
                    user_cancel))

DoObservedDestinationError ==
  /\ Callable
  /\ HasHadFile
  /\ env.streaming
  /\ \E reason \in InterruptInputs, o \in Oracles(BOOLEAN, No, No, No),
        call \in ObserverCalls :
       Store(DestinationError(
               [Begin("DestinationError", o)
                  EXCEPT !.streaming = FALSE, !.observer = call],
               reason))

NextReentrant ==
  \/ DoStart
  \/ DoOnDownloadFileInitialized
  \/ DoObservedPause
  \/ DoObservedResume
  \/ DoObservedCancel
  \/ DoObservedDestinationError

SpecReentrant == InitReentrant /\ [][NextReentrant]_vars

----------------------------------------------------------------------------
(* The history constructor on its own: every stored state, danger type and *)
(* interrupt reason, with and without paths; then the user cancels or      *)
(* removes the item.                                                        *)

InitHistory ==
  /\ \E state \in ExternalStates :
       /\ log = [NoLog EXCEPT !.stored = state]
       /\ \E paths \in HistoryPaths, received_bytes \in {0, MaxBytes},
             danger_type \in DangerTypes, interrupt_reason \in Reasons,
             opened \in BOOLEAN :
            item = HistoryItem(paths[1], paths[2], received_bytes, MaxBytes,
                               state, danger_type, interrupt_reason, opened)
  /\ env = NewEnv(0, TRUE)

NextHistory == DoCancel \/ DoRemove

SpecHistory == InitHistory /\ [][NextHistory]_vars

----------------------------------------------------------------------------
(* A regular download whose delegate may choose either of two directories  *)
(* each time it is asked for the target.                                   *)

TwoDirs == {"A", "B"}

InitDirs ==
  /\ log = NoLog
  /\ item = RegularItem(MaxBytes, NoPath)
  /\ \E resumption \in BOOLEAN :
       env = [NewEnv(1, resumption) EXCEPT !.dirs = TwoDirs]

NextDirs == NextAutoResume

SpecDirs == InitDirs /\ [][NextDirs]_vars

----------------------------------------------------------------------------
(* A regular download whose delegate may choose between two directories    *)
(* and may hold two target determinations at once, followed to its         *)
(* completion.                                                             *)

InitTargets ==
  /\ log = NoLog
  /\ item = RegularItem(MaxBytes, NoPath)
  /\ \E resumption \in BOOLEAN :
       env = [NewEnv(1, resumption) EXCEPT !.dirs = TwoDirs,
                                           !.pending_cap = MaxTargetsPending]

NextTargets ==
  \/ DoStart
  \/ DoDestinationError
  \/ DoDestinationCompleted
  \/ DoOnDownloadFileInitialized
  \/ DoOnDownloadTargetDetermined
  \/ DoOnDownloadRenamedToIntermediateName
  \/ DoOnDownloadRenamedToFinalName
  \/ DoMaybeCompleteDownload
  \/ DoDelayedDownloadOpened

SpecTargets == InitTargets /\ [][NextTargets]_vars

----------------------------------------------------------------------------
(* A regular download followed to its completion, with a delegate that     *)
(* runs the closure ShouldOpenDownload() left with it: the closure is      *)
(* bound to a weak pointer, so it runs for as long as the item exists.     *)

InitCompleting ==
  /\ log = NoLog
  /\ item = RegularItem(MaxBytes, NoPath)
  /\ \E resumption \in BOOLEAN : env = NewEnv(1, resumption)

NextCompleting ==
  \/ DoStart
  \/ DoCancel
  \/ DoRemove
  \/ DoDestinationError
  \/ DoDestinationCompleted
  \/ DoOnDownloadFileInitialized
  \/ DoOnDownloadTargetDetermined
  \/ DoOnDownloadRenamedToIntermediateName
  \/ DoOnDownloadRenamedToFinalName
  \/ DoMaybeCompleteDownload
  \/ DoDelayedDownloadOpened

SpecCompleting ==
  InitCompleting /\ [][NextCompleting]_vars /\ WF_vars(DoDelayedDownloadOpened)

----------------------------------------------------------------------------
(* A regular download followed to its completion while its owner sets      *)
(* open_when_complete_ and is_temporary_ and the user opens it.            *)

DoSetOpenWhenComplete ==
  /\ Callable
  /\ \E open \in BOOLEAN :
       Store(SetOpenWhenComplete(Begin("SetOpenWhenComplete", Quiet), open))

DoSetIsTemporary ==
  /\ Callable
  /\ \E temporary \in BOOLEAN :
       Store(SetIsTemporary(Begin("SetIsTemporary", Quiet), temporary))

DoOpenDownload ==
  /\ Callable
  /\ Store(OpenDownload(Begin("OpenDownload", Quiet)))

\* The owner looks for the files of complete downloads only.
DoOnDownloadedFileRemoved ==
  /\ Callable
  /\ GetState(item) = "COMPLETE"
  /\ ~item.file_externally_removed_
  /\ Store(OnDownloadedFileRemoved(Begin("OnDownloadedFileRemoved", Quiet)))

InitOpen ==
  /\ log = NoLog
  /\ item = RegularItem(MaxBytes, NoPath)
  /\ \E resumption \in BOOLEAN : env = NewEnv(1, resumption)

NextOpen ==
  \/ DoStart
  \/ DoSetOpenWhenComplete
  \/ DoSetIsTemporary
  \/ DoOpenDownload
  \/ DoOnDownloadedFileRemoved
  \/ DoDestinationCompleted
  \/ DoOnDownloadFileInitialized
  \/ DoOnDownloadTargetDetermined
  \/ DoOnDownloadRenamedToIntermediateName
  \/ DoOnDownloadRenamedToFinalName
  \/ DoMaybeCompleteDownload
  \/ DoDelayedDownloadOpened

SpecOpen == InitOpen /\ [][NextOpen]_vars

----------------------------------------------------------------------------
(* TransitionTo() on its own: from every constructed item, to every        *)
(* internal state, again and again.                                        *)

DoTransitionTo ==
  \E new_state \in InternalStates :
    LET c == TransitionTo(Begin("TransitionTo", Quiet), new_state)
    IN /\ item' = [f \in DOMAIN item |-> c[f]]
       /\ env' = [f \in DOMAIN env |-> c[f]]
       /\ log' = [f \in DOMAIN log |-> c[f]]

NextTransition == DoTransitionTo

SpecTransition == Init /\ [][NextTransition]_vars

----------------------------------------------------------------------------
(* Properties. *)

\* C1: COMPLETE and CANCELLED are terminal: once the internal state is
\* COMPLETE or CANCELLED, no operation and no late callback moves the item
\* to another state; in particular a Start() delivered for a resumption
\* requested before a Cancel() does not return a CANCELLED item to
\* IN_PROGRESS.
TerminalStatesAreFinal ==
  [][item.state_ \in {"COMPLETE", "CANCELLED"}
       => item'.state_ = item.state_]_vars

\* C3: all_data_saved is monotonic: once true it is true in every later
\* state, across Interrupt, Cancel, a resumption with restart and the Start
\* that follows.
AllDataSavedMonotonic ==
  [][item.all_data_saved_ => item'.all_data_saved_]_vars

\* A restart was requested and started after all data had been saved, and
\* the flag is still set.
AllDataSavedAcrossRestart ==
  /\ log.op = "Start"
  /\ env.resumes > 0
  /\ item.received_bytes_ = 0
  /\ item.all_data_saved_

\* C10: once the item has entered COMPLETING it is committed: a Cancel and
\* an Interrupt leave state and last_interrupt_reason as they are and call
\* nothing, and the only other state the item enters is COMPLETE.
CompletingIsCommitted ==
  [][item.state_ = "COMPLETING"
       => /\ item'.state_ \in {"COMPLETING", "COMPLETE"}
          /\ item'.last_reason_ = item.last_reason_
          /\ (log'.op = "Cancel" \/ log'.interrupt_arg # "none")
               => /\ item'.state_ = "COMPLETING"
                  /\ log'.cancel_request = 0
                  /\ log'.file_cancel + log'.file_detach
                       + log'.null_teardown = 0]_vars

\* A failed rename reached Interrupt() while the item was COMPLETING, and
\* the item is COMPLETING still.
InterruptIgnoredWhileCompleting ==
  /\ item.state_ = "COMPLETING"
  /\ log.interrupt_arg # "none"

\* C2: a call of UpdateProgress or DestinationUpdate made while the state is
\* not IN_PROGRESS (COMPLETING, COMPLETE, CANCELLED or INTERRUPTED) leaves
\* received_bytes, total_bytes, the transfer rate and the hash state
\* unchanged and notifies no observer.
ProgressDroppedUnlessInProgress ==
  [][(log'.op \in {"UpdateProgress", "DestinationUpdate"}
        /\ item.state_ # "IN_PROGRESS")
       => /\ item'.received_bytes_ = item.received_bytes_
          /\ item'.total_bytes_ = item.total_bytes_
          /\ item'.bytes_per_sec_ = item.bytes_per_sec_
          /\ item'.hash_state_ = item.hash_state_
          /\ log'.updates = 0]_vars

\* C4: the precondition of OnAllDataSaved (state IN_PROGRESS, all_data_saved
\* false) holds at every call DestinationCompleted makes of it.
DestinationCompletedMeetsPrecondition ==
  log.op = "DestinationCompleted"
    => log.dcheck \cap {"OnAllDataSaved:IN_PROGRESS_INTERNAL==state_",
                        "OnAllDataSaved:!all_data_saved_"} = {}

\* C5: while the item is dangerous MaybeCompleteDownload requests no final
\* rename, even with all data saved; DangerousDownloadValidated leaves the
\* danger type user-validated, and its gate check goes on to the final
\* rename when every other readiness condition holds.
DangerGatesCompletion ==
  /\ log.gate = "passed" => ~IsDangerous(item)
  /\ log.final_posted > 0 => log.gate = "passed"
  /\ log.op = "DangerousDownloadValidated"
       => /\ item.danger_type_ = "USER_VALIDATED"
          /\ (/\ item.all_data_saved_
              /\ item.state_ = "IN_PROGRESS"
              /\ ~item.is_save_package_download_
              /\ item.target_path_ # NoPath
              /\ DirName(item.target_path_) = DirName(item.current_path_)
              /\ log.asked_complete = "true")
               => log.final_posted = 1

\* The user validated a dangerous download whose data was saved, and the
\* final rename was requested.
ValidatedThenRenamed ==
  /\ log.op = "DangerousDownloadValidated"
  /\ item.all_data_saved_
  /\ log.final_posted = 1

\* C6: the item never enters COMPLETING or COMPLETE through the completion
\* cascade while it is dangerous and not user-validated, even if it is
\* reclassified after the gate passed and before the final rename answers.
NeverCompletesWhileDangerous ==
  [][(/\ item'.state_ \in {"COMPLETING", "COMPLETE"}
      /\ item.state_ \notin {"COMPLETING", "COMPLETE"}
      /\ log'.op # "MarkAsComplete")
       => ~IsDangerous(item')]_vars

\* C7: an Interrupt in a state other than IN_PROGRESS changes nothing: state,
\* last_interrupt_reason, auto_resume_count and the DownloadFile stay, no
\* request is cancelled and no resumption asked for; so a second Interrupt
\* leaves the reason of the first.
InterruptIgnoredUnlessInProgress ==
  [][(log'.interrupt_arg # "none" /\ item.state_ # "IN_PROGRESS")
       => /\ item'.state_ = item.state_
          /\ item'.last_reason_ = item.last_reason_
          /\ item'.auto_resume_count_ = item.auto_resume_count_
          /\ item'.download_file_ = item.download_file_
          /\ log'.cancel_request = 0
          /\ log'.resume_issued = 0
          /\ log'.file_cancel + log'.file_detach + log'.null_teardown = 0]_vars

\* A second Interrupt, with another reason, came to an INTERRUPTED item and
\* the reason is the first's.
SecondInterruptDropped ==
  /\ item.state_ = "INTERRUPTED"
  /\ log.interrupt_arg # "none"
  /\ item.last_reason_ # log.interrupt_arg

\* C8: Cancel is idempotent: a Cancel that follows a Cancel leaves the item
\* as the first left it, notifies no observer and cancels no request.
CancelIdempotent ==
  [][(log.op = "Cancel" /\ log'.op = "Cancel")
       => /\ item' = item
          /\ log'.updates = 0
          /\ log'.cancel_request = 0
          /\ log'.file_cancel + log'.file_detach + log'.null_teardown = 0]_vars

\* A Cancel has cancelled the item, which can be called again.
CancelledOnce ==
  /\ log.op = "Cancel"
  /\ item.state_ = "CANCELLED"
  /\ Callable

\* C9: Cancel(true) on an IN_PROGRESS item moves it to CANCELLED, hands the
\* DownloadFile to a cancel task so that the item owns it no longer, cancels
\* the request once and notifies the observers once.
CancelInProgress ==
  [][(/\ log'.op = "Cancel"
      /\ item.state_ = "IN_PROGRESS"
      /\ item'.last_reason_ = "USER_CANCELED")
       => /\ item'.state_ = "CANCELLED"
          /\ ~item'.download_file_
          /\ log'.file_cancel = (IF item.download_file_ THEN 1 ELSE 0)
          /\ log'.file_detach + log'.null_teardown = 0
          /\ log'.cancel_request = 1
          /\ log'.updates = 1]_vars

\* Cancel(true) cancelled an item that was IN_PROGRESS with a DownloadFile.
UserCancelledTransfer ==
  /\ log.op = "Cancel"
  /\ item.last_reason_ = "USER_CANCELED"
  /\ log.cancel_request = 1
  /\ log.file_cancel = 1

\* C11: GetResumeMode follows the decision table.  Of an item that is not
\* INTERRUPTED the mode is INVALID.  Of an INTERRUPTED item, with the columns
\* (no file, automatic), (no file, user), (file, automatic), (file, user),
\* where "user" is a counter at its cap or a paused item: the transient
\* reasons give IMMEDIATE_RESTART, USER_RESTART, IMMEDIATE_CONTINUE,
\* USER_CONTINUE; server precondition, no range and file too short give
\* IMMEDIATE_RESTART or USER_RESTART whatever the file; the generic network
\* and server failures, shutdown and crash give USER_RESTART without a file
\* and USER_CONTINUE with one; the fatal file errors give USER_RESTART; none,
\* virus, bad content, user cancelled, blocked and security check failed
\* give INVALID.
ResumeModeDecisionTable ==
  log.op = "GetResumeMode" =>
    LET reason == item.last_reason_
        file == item.current_path_ # NoPath
        user == item.auto_resume_count_ >= 5 \/ item.is_paused_
        column == IF ~file THEN (IF ~user THEN 1 ELSE 2)
                  ELSE (IF ~user THEN 3 ELSE 4)
        row == CASE reason \in {"FILE_TRANSIENT_ERROR", "NETWORK_TIMEOUT"} ->
                      <<"IMMEDIATE_RESTART", "USER_RESTART",
                        "IMMEDIATE_CONTINUE", "USER_CONTINUE">>
                 [] reason \in {"SERVER_PRECONDITION", "SERVER_NO_RANGE",
                                "FILE_TOO_SHORT"} ->
                      <<"IMMEDIATE_RESTART", "USER_RESTART",
                        "IMMEDIATE_RESTART", "USER_RESTART">>
                 [] reason \in {"NETWORK_FAILED", "NETWORK_DISCONNECTED",
                                "NETWORK_SERVER_DOWN", "SERVER_FAILED",
                                "USER_SHUTDOWN", "CRASH"} ->
                      <<"USER_RESTART", "USER_RESTART",
                        "USER_CONTINUE", "USER_CONTINUE">>
                 [] reason \in {"FILE_FAILED", "FILE_ACCESS_DENIED",
                                "FILE_NO_SPACE", "FILE_NAME_TOO_LONG",
                                "FILE_TOO_LARGE"} ->
                      <<"USER_RESTART", "USER_RESTART",
                        "USER_RESTART", "USER_RESTART">>
                 [] reason \in {"NONE", "FILE_VIRUS_INFECTED",
                                "SERVER_BAD_CONTENT", "USER_CANCELED",
                                "FILE_BLOCKED",
                                "FILE_SECURITY_CHECK_FAILED"} ->
                      <<"INVALID", "INVALID", "INVALID", "INVALID">>
    IN log.mode = (IF item.state_ = "INTERRUPTED" THEN row[column]
                   ELSE "INVALID")

\* GetResumeMode has answered for an INTERRUPTED item with a file, below the
\* cap and not paused, after a server error that cannot continue the file.
RestartDespiteFile ==
  /\ log.op = "GetResumeMode"
  /\ item.state_ = "INTERRUPTED"
  /\ item.last_reason_ = "SERVER_NO_RANGE"
  /\ item.current_path_ # NoPath
  /\ item.auto_resume_count_ = 4
  /\ ~item.is_paused_
  /\ log.mode = "IMMEDIATE_RESTART"

\* C12 as stated: for every transient and every server-retryable reason, an
\* INTERRUPTED item with no intermediate file and a counter below the cap
\* has the mode IMMEDIATE_RESTART.
ImmediateRestartBelowCap ==
  (/\ log.op = "GetResumeMode"
   /\ item.state_ = "INTERRUPTED"
   /\ item.last_reason_ \in {"FILE_TRANSIENT_ERROR", "NETWORK_TIMEOUT",
                              "SERVER_PRECONDITION", "SERVER_NO_RANGE",
                              "FILE_TOO_SHORT"}
   /\ item.current_path_ = NoPath
   /\ item.auto_resume_count_ < 5)
    => log.mode = "IMMEDIATE_RESTART"

\* C12, amended: for every transient and every server-retryable reason, an
\* INTERRUPTED item that is not paused, has no intermediate file and a
\* counter below the cap has the mode IMMEDIATE_RESTART; a paused one has
\* the mode USER_RESTART.
ImmediateRestartBelowCapUnlessPaused ==
  (/\ log.op = "GetResumeMode"
   /\ item.state_ = "INTERRUPTED"
   /\ item.last_reason_ \in {"FILE_TRANSIENT_ERROR", "NETWORK_TIMEOUT",
                              "SERVER_PRECONDITION", "SERVER_NO_RANGE",
                              "FILE_TOO_SHORT"}
   /\ item.current_path_ = NoPath
   /\ item.auto_resume_count_ < 5)
    => log.mode = (IF item.is_paused_ THEN "USER_RESTART"
                   ELSE "IMMEDIATE_RESTART")

\* GetResumeMode has answered for an INTERRUPTED item without a file, one
\* short of the cap and not paused, after a transient file error.
LastAutomaticRestart ==
  /\ log.op = "GetResumeMode"
  /\ item.state_ = "INTERRUPTED"
  /\ item.last_reason_ = "FILE_TRANSIENT_ERROR"
  /\ item.current_path_ = NoPath
  /\ item.auto_resume_count_ = 4
  /\ ~item.is_paused_
  /\ log.mode = "IMMEDIATE_RESTART"

\* C13: the counter of automatic resumptions stays within 0 and
\* kMaxAutoResumeAttempts: at the cap no automatic resumption counts again.
AutoResumeCountWithinCap ==
  /\ item.auto_resume_count_ >= 0
  /\ item.auto_resume_count_ <= 5

\* An Interrupt has reached an item whose counter was at the cap already,
\* and has left it there.
InterruptedAtTheCap ==
  /\ log.interrupt_arg = "NETWORK_TIMEOUT"
  /\ log.mode = "USER_RESTART"
  /\ item.state_ = "INTERRUPTED"
  /\ item.auto_resume_count_ = 5
  /\ env.resumes >= 5

\* C14: the counter grows only in the automatic resumption that follows an
\* Interrupt accepted in IN_PROGRESS, and then by one; and a Resume() that
\* issues a resumption request leaves the counter at 0.
CountGrowsOnlyByAutoResume ==
  [][/\ item'.auto_resume_count_ > item.auto_resume_count_
          => /\ item'.auto_resume_count_ = item.auto_resume_count_ + 1
             /\ log'.interrupt_arg # "none"
             /\ item.state_ = "IN_PROGRESS"
             /\ item'.state_ = "INTERRUPTED"
             /\ log'.mode \in {"IMMEDIATE_RESTART", "IMMEDIATE_CONTINUE"}
     /\ (log'.op = "Resume" /\ log'.resume_issued > 0)
          => item'.auto_resume_count_ = 0]_vars

\* A Resume() has issued the third resumption request of a download, and the
\* counter is 0.
ManualResumeIssued ==
  /\ log.op = "Resume"
  /\ log.resume_issued = 1
  /\ env.resumes = 3
  /\ item.state_ = "INTERRUPTED"
  /\ item.auto_resume_count_ = 0

\* C15: an Interrupt accepted in IN_PROGRESS whose decided mode is
\* IMMEDIATE_RESTART or IMMEDIATE_CONTINUE leaves the item INTERRUPTED, adds
\* one to the counter and issues one resumption request to the delegate;
\* and the counter never grows in a step that issues no resumption request.
AutoResumeIssuesOneRequest ==
  [][/\ (/\ log'.interrupt_arg # "none"
          /\ item.state_ = "IN_PROGRESS"
          /\ log'.mode \in {"IMMEDIATE_RESTART", "IMMEDIATE_CONTINUE"})
          => /\ item'.state_ = "INTERRUPTED"
             /\ item'.auto_resume_count_ = item.auto_resume_count_ + 1
             /\ log'.resume_issued = 1
     /\ item'.auto_resume_count_ > item.auto_resume_count_
          => log'.resume_issued = 1]_vars

\* C16: an Interrupt accepted in IN_PROGRESS whose decided mode is
\* USER_RESTART, USER_CONTINUE or INVALID leaves the item INTERRUPTED with
\* the counter as it was and issues no resumption request; and with the
\* counter at 5, a NETWORK_TIMEOUT and no intermediate file the decided mode
\* is USER_RESTART, which is also the mode of the item afterwards.
NoAutomaticActionInUserModes ==
  [][/\ (/\ log'.interrupt_arg # "none"
          /\ item.state_ = "IN_PROGRESS"
          /\ log'.mode \in {"USER_RESTART", "USER_CONTINUE", "INVALID"})
          => /\ item'.state_ = "INTERRUPTED"
             /\ item'.auto_resume_count_ = item.auto_resume_count_
             /\ log'.resume_issued = 0
             /\ env'.resumes = env.resumes
             /\ env'.start_pending = env.start_pending
     /\ (/\ log'.interrupt_arg = "NETWORK_TIMEOUT"
          /\ item.state_ = "IN_PROGRESS"
          /\ item.current_path_ = NoPath
          /\ item.auto_resume_count_ = 5)
          => /\ log'.mode = "USER_RESTART"
             /\ GetResumeMode(item') = "USER_RESTART"
             /\ item'.auto_resume_count_ = 5]_vars

\* Five resumption requests were issued automatically, each after a
\* NETWORK_TIMEOUT without an intermediate file, and the sixth
\* NETWORK_TIMEOUT has left the item waiting for the user.
SixthInterruptWaitsForUser ==
  /\ log.interrupt_arg = "NETWORK_TIMEOUT"
  /\ log.resume_issued = 0
  /\ env.resumes = 5
  /\ env.start_pending = 0
  /\ item.state_ = "INTERRUPTED"
  /\ item.current_path_ = NoPath
  /\ item.auto_resume_count_ = 5
  /\ ~item.is_paused_
  /\ GetResumeMode(item) = "USER_RESTART"

\* C17: where an INTERRUPTED item waits for the user (mode USER_RESTART or
\* USER_CONTINUE), with resumption enabled and a WebContents to resume in,
\* Resume() sets the counter to 0 and issues one resumption request,
\* whether the item is paused or not.
ResumeOfWaitingItemResumes ==
  (/\ Callable
   /\ env.resumption
   /\ item.state_ = "INTERRUPTED"
   /\ GetResumeMode(item) \in {"USER_RESTART", "USER_CONTINUE"})
    => LET c == Resume(Begin("Resume", Oracle(TRUE, FALSE, FALSE, FALSE)))
       IN /\ c.auto_resume_count_ = 0
          /\ c.resume_issued = 1

\* C18: Resume() is a no-op on an item that is not paused and on an item
\* that is COMPLETE, CANCELLED or COMPLETING: it changes nothing, calls
\* nothing on the request handle, notifies nobody and fails no DCHECK.
ResumeIgnoredUnlessPausedAndLive ==
  [][(/\ log'.op = "Resume"
      /\ \/ ~item.is_paused_
         \/ item.state_ \in {"COMPLETE", "CANCELLED", "COMPLETING"})
       => /\ item' = item
          /\ log'.resume_request = 0
          /\ log'.updates = 0
          /\ log'.dcheck = {}]_vars

\* C19: whenever the total is known (total_bytes > 0) the bytes received do
\* not exceed it.
ReceivedWithinKnownTotal ==
  item.total_bytes_ > 0 => item.received_bytes_ <= item.total_bytes_

GateIsConjunctionOfConditions ==
  log.op = "IsDownloadReadyForCompletion" =>
    LET local == /\ item.all_data_saved_
                 /\ ~IsDangerous(item)
                 /\ item.state_ = "IN_PROGRESS"
                 /\ item.target_path_ # NoPath
                 /\ DirName(item.target_path_) = DirName(item.current_path_)
    IN /\ log.asked_complete # "none" <=> local
       /\ log.gate = "passed" <=> (local /\ log.asked_complete = "true")
       /\ log.gate = "blocked" <=> ~(local /\ log.asked_complete = "true")
       /\ log.asked_complete = "false" => env.complete_retry
       /\ env.complete_retry => local

\* The gate has let a validated download in one directory pass.
GatePassedAfterValidation ==
  /\ log.op = "IsDownloadReadyForCompletion"
  /\ log.gate = "passed"
  /\ item.danger_type_ = "USER_VALIDATED"
  /\ item.target_path_ = <<"B", TargetName>>
  /\ item.current_path_ = <<"B", IntermediateName>>

\* C22: no teardown task is posted with a null DownloadFile; a removed item
\* owns no DownloadFile; Start never replaces a DownloadFile the item still
\* owns; and a step posts at most one teardown task, a Detach or a Cancel,
\* exactly when the item gives up the DownloadFile it owned.
DownloadFileTornDownOnce ==
  /\ [](/\ log.null_teardown = 0
        /\ "Start:!download_file_.get()" \notin log.dcheck
        /\ (env.life = "removed" => ~item.download_file_))
  /\ [][/\ log'.file_cancel + log'.file_detach <= 1
        /\ (item.download_file_ /\ ~item'.download_file_)
             <=> (log' # log /\ log'.file_cancel + log'.file_detach = 1)]_vars

\* Remove() has found the item with its DownloadFile and has handed it to a
\* Cancel task.
RemovedAfterCancelTask ==
  /\ log.op = "Remove"
  /\ env.life = "removed"
  /\ log.file_cancel = 1
  /\ log.file_detach = 0
  /\ ~item.download_file_

\* C23: at most one rename, RenameAndUniquify or RenameAndAnnotate, is
\* posted to the DownloadFile and not yet answered.
AtMostOneRenameOutstanding ==
  Cardinality({i \in 1..Len(env.file_cbs) :
                 env.file_cbs[i][1] \in {"inter", "final"}}) <= 1

\* C24: OnDownloadTargetDetermined, OnDownloadRenamedToIntermediateName and
\* OnDownloadRenamedToFinalName that reach a CANCELLED or INTERRUPTED item
\* change neither its paths, its danger type nor its state, and post no
\* rename to the DownloadFile.
LateCallbacksChangeNothing ==
  [][(/\ log'.op \in {"OnDownloadTargetDetermined",
                       "OnDownloadRenamedToIntermediateName",
                       "OnDownloadRenamedToFinalName"}
      /\ item.state_ \in {"CANCELLED", "INTERRUPTED"})
       => /\ item'.target_path_ = item.target_path_
          /\ item'.current_path_ = item.current_path_
          /\ item'.danger_type_ = item.danger_type_
          /\ item'.state_ = item.state_
          /\ log'.inter_posted + log'.final_posted = 0
          /\ env'.life = "alive"]_vars

\* C25: with observers that call Cancel, Resume, Pause or Interrupt from
\* inside OnDownloadUpdated, every operation ends with at most one teardown
\* task posted for the DownloadFile, none posted with a null DownloadFile,
\* and the process alive.
ReentrantObserversAreSafe ==
  /\ log.null_teardown = 0
  /\ log.file_cancel + log.file_detach <= 1
  /\ env.life # "crashed"

\* C26: TransitionTo notifies the observers once when the external state
\* changes and not at all when it does not: to the current state it changes
\* nothing, between IN_PROGRESS and COMPLETING it changes the internal state
\* in silence; it changes no other field of the item.
TransitionNotifiesOnExternalChange ==
  [][log'.op = "TransitionTo" =>
       LET external(st) == IF st = "COMPLETING" THEN "IN_PROGRESS" ELSE st
       IN /\ log'.updates = (IF external(item'.state_) # external(item.state_)
                             THEN 1 ELSE 0)
          /\ item' = [item EXCEPT !.state_ = item'.state_]
          /\ env' = env
          /\ ({item.state_, item'.state_} = {"IN_PROGRESS", "COMPLETING"}
                => log'.updates = 0)
          /\ (item'.state_ \in {"INTERRUPTED", "CANCELLED", "COMPLETE"}
              /\ item'.state_ # item.state_) => log'.updates = 1]_vars

\* A transition has entered COMPLETING without a notification.
SilentlyCompleting ==
  /\ log.op = "TransitionTo"
  /\ item.state_ = "COMPLETING"
  /\ log.updates = 0

\* C27: an item constructed from history is in the internal state of the
\* same name as the stored state, except that a stored IN_PROGRESS gives
\* CANCELLED; all_data_saved_ is set exactly for a stored COMPLETE; so the
\* new item is neither IN_PROGRESS nor COMPLETING.
HistoryItemStartsFromStoredState ==
  (log.op = "none" /\ log.stored # "none") =>
    /\ item.state_ = (IF log.stored = "IN_PROGRESS" THEN "CANCELLED"
                      ELSE log.stored)
    /\ item.all_data_saved_ = (log.stored = "COMPLETE")
    /\ item.state_ \notin {"IN_PROGRESS", "COMPLETING"}

\* A history item stored as IN_PROGRESS has been constructed.
StoredInProgressConstructed ==
  /\ log.op = "none"
  /\ log.stored = "IN_PROGRESS"
  /\ item.state_ = "CANCELLED"
  /\ ~item.all_data_saved_

\* C28: every Start() finds the item without a DownloadFile, so its DCHECK
\* holds, and leaves it owning the DownloadFile and the request handle,
\* IN_PROGRESS, with last_reason_ NONE and one more Initialize posted to the
\* FILE thread.
StartTakesTheHandles ==
  [][log'.op = "Start" =>
       /\ ~item.download_file_
       /\ "Start:!download_file_.get()" \notin log'.dcheck
       /\ item'.download_file_
       /\ item'.request_handle_ = "Real"
       /\ item'.state_ = "IN_PROGRESS"
       /\ item'.last_reason_ = "NONE"
       /\ env'.file_cbs = Append(env.file_cbs, <<"init">>)]_vars

\* Start() has run for a resumption: it brought an interrupted item back to
\* IN_PROGRESS.
StartedAgainAfterInterrupt ==
  /\ log.op = "Start"
  /\ env.resumes = 1
  /\ log.updates = 1
  /\ item.state_ = "IN_PROGRESS"
  /\ item.download_file_

\* C29: whenever current_path_ and target_path_ of a live item are both
\* non-empty, they are in the same directory.
SameParentDirectory ==
  (/\ env.life = "alive"
   /\ item.current_path_ # NoPath
   /\ item.target_path_ # NoPath) =>
    DirName(item.current_path_) = DirName(item.target_path_)

\* C30: an item that Remove() or Delete() has removed is COMPLETE or
\* CANCELLED: that is its state when OnDownloadRemoved is broadcast, and
\* nothing runs on it afterwards.
RemovedInTerminalState ==
  env.life = "removed" => item.state_ \in {"COMPLETE", "CANCELLED"}

\* C31: an Interrupt() accepted in IN_PROGRESS hands the DownloadFile to
\* DownloadFileCancel exactly when the resume mode of the item just made
\* INTERRUPTED is IMMEDIATE_RESTART or USER_RESTART, and to DownloadFileDetach
\* in every other mode; either way the item owns no DownloadFile afterwards
\* and the request is cancelled once.
InterruptDiscardsFileOnRestartModes ==
  [][(log'.interrupt_arg # "none" /\ item.state_ = "IN_PROGRESS") =>
       LET mode == GetResumeMode([item EXCEPT
                                    !.state_ = "INTERRUPTED",
                                    !.last_reason_ = log'.interrupt_arg])
       IN /\ log'.mode = mode
          /\ IF mode \in {"IMMEDIATE_RESTART", "USER_RESTART"}
             THEN log'.file_cancel = 1 /\ log'.file_detach = 0
             ELSE log'.file_cancel = 0 /\ log'.file_detach = 1
          /\ log'.null_teardown = 0
          /\ log'.cancel_request = 1
          /\ ~item'.download_file_]_vars

\* An Interrupt() has discarded the file of a download that restarts.
FileDiscardedForRestart ==
  /\ log.interrupt_arg # "none"
  /\ log.mode \in {"IMMEDIATE_RESTART", "USER_RESTART"}
  /\ log.file_cancel = 1
  /\ log.cancel_request = 1

\* C32: an INTERRUPTED item whose resume mode is IMMEDIATE_CONTINUE or
\* USER_CONTINUE, and an item whose resumption is requested at an offset
\* above 0, has the file of its last DownloadFile: the file was detached,
\* not deleted.
ContinueOnlyWithKeptFile ==
  /\ [](/\ env.life = "alive"
        /\ item.state_ = "INTERRUPTED"
        /\ GetResumeMode(item) \in {"IMMEDIATE_CONTINUE", "USER_CONTINUE"}
        => env.partial_file # "deleted")
  /\ [][(log'.resume_issued = 1 /\ item'.received_bytes_ > 0)
          => env'.partial_file # "deleted"]_vars

\* C33: a resumption issued in IMMEDIATE_RESTART or USER_RESTART hands the
\* delegate offset 0 and an empty hash state, last-modified time and ETag; in
\* a continue mode it hands over what the item had before; a manual
\* resumption is built for the mode of the item with its counter reset; and
\* afterwards the item is not paused and still INTERRUPTED.
ResumptionParameters ==
  [][log'.resume_issued = 1 =>
       LET params == log'.resume_params
       IN /\ params.mode \in ResumeModes
          /\ log'.op = "Resume" =>
                params.mode =
                  GetResumeMode([item EXCEPT !.auto_resume_count_ = 0])
          /\ params.mode \in {"IMMEDIATE_RESTART", "USER_RESTART"} =>
                /\ params.offset = 0
                /\ params.hash_state = ""
                /\ params.last_modified = ""
                /\ params.etag = ""
          /\ params.mode \in {"IMMEDIATE_CONTINUE", "USER_CONTINUE"} =>
                /\ params.offset = item.received_bytes_
                /\ params.hash_state = item.hash_state_
                /\ params.last_modified = item.last_modified_time_
                /\ params.etag = item.etag_
          /\ item'.received_bytes_ = params.offset
          /\ item'.hash_state_ = params.hash_state
          /\ ~item'.is_paused_
          /\ item'.state_ = "INTERRUPTED"]_vars

\* The user has resumed, from the start, a download that had received
\* something.
RestartRequestedAtZero ==
  /\ log.op = "Resume"
  /\ log.resume_issued = 1
  /\ log.resume_params.mode = "USER_RESTART"
  /\ log.resume_params.offset = 0
  /\ item.received_bytes_ = 0
  /\ item.state_ = "INTERRUPTED"

\* C34: a handler that posts RenameAndUniquify or RenameAndAnnotate to the
\* FILE thread owns a DownloadFile when it posts.
RenamePostedWithDownloadFile ==
  [][(log'.inter_posted + log'.final_posted > 0) =>
       /\ item'.download_file_
       /\ env'.life = "alive"]_vars

\* C35: a regular download enters COMPLETING only from IN_PROGRESS in a
\* final-rename callback that reports success, and COMPLETE only from
\* COMPLETING, in that callback or later; a rename callback that reports a
\* failure to an IN_PROGRESS item leaves it INTERRUPTED with that reason;
\* and the callback that completes leaves current_path_ equal to
\* target_path_.
CompletionOnlyThroughFinalRename ==
  [][~item.is_save_package_download_ =>
       LET renamed == /\ log'.op = "OnDownloadRenamedToFinalName"
                      /\ log'.interrupt_arg = "none"
                      /\ item.state_ = "IN_PROGRESS"
       IN /\ (item'.state_ = "COMPLETING" /\ item.state_ # "COMPLETING")
               => renamed
          /\ (item'.state_ = "COMPLETE" /\ item.state_ # "COMPLETE")
               => (item.state_ = "COMPLETING" \/ renamed)
          /\ (/\ log'.op \in {"OnDownloadRenamedToIntermediateName",
                               "OnDownloadRenamedToFinalName"}
              /\ log'.interrupt_arg # "none"
              /\ item.state_ = "IN_PROGRESS")
               => /\ item'.state_ = "INTERRUPTED"
                  /\ item'.last_reason_ = log'.interrupt_arg
          /\ (renamed /\ item'.state_ \in {"COMPLETING", "COMPLETE"})
               => item'.current_path_ = item'.target_path_]_vars

\* C36: an item in COMPLETING reaches COMPLETE, given a delegate that runs
\* the delayed-open closure whenever it holds one.
CompletingLeadsToComplete ==
  (item.state_ = "COMPLETING") ~> (item.state_ = "COMPLETE")

\* C37: a MaybeCompleteDownload() that finds the completion gate open for a
\* SavePackage download leaves the item COMPLETE, posts no rename to a
\* DownloadFile and fails no DCHECK.
SavePackageCompletesDirectly ==
  [][(/\ log'.op = "MaybeCompleteDownload"
      /\ item.is_save_package_download_
      /\ log'.gate = "passed") =>
       /\ item'.state_ = "COMPLETE"
       /\ log'.inter_posted = 0
       /\ log'.final_posted = 0
       /\ env'.file_cbs = env.file_cbs
       /\ log'.dcheck = {}]_vars

DelayedCompleteOnlyWhileCompleting ==
  env.life = "alive" =>
    /\ item.delegate_delayed_complete_ =>
         (item.state_ = "COMPLETING" /\ env.open_pending)
    /\ (item.state_ = "COMPLETE" /\ item.total_bytes_ > 0) =>
         PercentComplete(item) # -1

============================================================================
